---- MODULE Spec2Model ----
(***************************************************************************)
(* Model of the codex-router streaming bridge.                             *)
(*                                                                         *)
(*  - Spec   : ProxyHandler.transformStream (Go), the loop that reads the  *)
(*             backend's SSE lines and writes Responses-API events.        *)
(*  - SpecTS : StreamTransformer (TypeScript translator), the per-chunk    *)
(*             transformer with its StreamState.                           *)
(*                                                                         *)
(* Text is a sequence of characters, so that concatenation order shows.    *)
(***************************************************************************)
EXTENDS Integers, Sequences, FiniteSets, TLC

(***************************************************************************)
(* Bounds of the model.                                                    *)
(***************************************************************************)
\* Backend lines delivered by the response body over one stream.
MaxFrames == 4
\* Lines one body.Read may put into the bufio.Reader's buffer at once.
MaxBurst == 2
\* Calls (transformChunk, reset) made on one StreamTransformer.
MaxCalls == 4
\* Calls (Register, Unregister, requests) made on a registry.
MaxOps == 3
\* Requests recorded in one provider's metrics.
MaxRequests == 10
\* Health probes of one provider failing in a row.
MaxConsecutiveFail == 2
\* Chunks the reader goroutine of one stream sends.
MaxEvents == 102
\* Items of one input array.
MaxItems == 2
\* Choices of one backend response.
MaxChoices == 2
\* Parts of an id handed to an id function.
MaxIdParts == 2
\* Patterns in one provider's config.Models.
MaxPatterns == 2
\* Requests recorded in the metrics while goroutines run concurrently.
MaxRecords == 2

Chars == {"a", "b"}
\* delta.content of one choice: absent/empty, or one character of text.
Fragments == {<<>>} \cup {<<c>> : c \in Chars}

RECURSIVE Concat(_)
\* Concatenation of a sequence of texts, in order.
Concat(ss) == IF ss = <<>> THEN <<>> ELSE Head(ss) \o Concat(Tail(ss))

RECURSIVE SeqsUpTo(_, _)
\* All sequences over S of length at most n.
SeqsUpTo(S, n) ==
  IF n = 0 THEN {<<>>}
  ELSE LET shorter == SeqsUpTo(S, n - 1)
       IN  shorter \cup {Append(s, x) : s \in {t \in shorter : Len(t) = n - 1}, x \in S}

(***************************************************************************)
(* Backend lines as transformStream classifies them (after TrimSpace).     *)
(***************************************************************************)
Frame(k, cs, f) == [kind |-> k, contents |-> cs, finish |-> f]

\* "blank": an empty line.  "other": a line without the "data:" prefix.
\* "bad": a data line whose payload is not JSON.  "done": data: [DONE].
PlainFrames == {Frame(k, <<>>, "none") : k \in {"blank", "other", "bad", "done"}}

\* A data line holding a JSON chunk: the delta.content of each of its choices
\* in order (<<>> for an absent or empty content), and whether a choice
\* carries a finish_reason.
ChunkFrames ==
  { Frame("chunk", cs, f) : cs \in SeqsUpTo(Fragments, 2), f \in {"none", "stop"} }

Frames == PlainFrames \cup ChunkFrames

(***************************************************************************)
(* Events written to the client.  text is the event's text payload: the    *)
(* "delta" of output_text.delta, the "text" of output_text.done, the text  *)
(* of the part or item of the *.done events, and the text found in the     *)
(* response's output content for response.completed.                       *)
(***************************************************************************)
Event(t, n, txt) == [type |-> t, seq |-> n, text |-> txt]

(***************************************************************************)
(* The TypeScript translator: chunks handed to StreamTransformer and the   *)
(* events it returns.                                                      *)
(***************************************************************************)
ToolIndexes == {0, 1}

\* The backend's id of the tool call at an index, as a prefix and a rest.
BackendCallId(i) == <<"call_", i>>

\* generateCallId(originalId) for a non-empty id: a leading call_ is replaced
\* by fc_, any other id gets fc_ put in front.
generateCallId(id) ==
  IF Head(id) = "call_" THEN <<"fc_">> \o Tail(id) ELSE <<"fc_">> \o id

\* One entry of delta.tool_calls; <<>> and "" stand for an absent field.
ToolDelta(i, id, name, args) ==
  [index |-> i, id |-> id, name |-> name, arguments |-> args]

ToolDeltas ==
  UNION { { ToolDelta(i, BackendCallId(i), "f", <<>>),
            ToolDelta(i, BackendCallId(i), "f", <<"a">>),
            ToolDelta(i, <<>>, "", <<"a">>),
            ToolDelta(i, <<>>, "", <<"b">>) } : i \in ToolIndexes }

\* A ChatCompletionChunk: whether choices[0] exists, its delta.content, its
\* delta.tool_calls and its finish_reason ("none" for null).
Chunk(has, content, tools, finish) ==
  [hasChoice |-> has, content |-> content, toolCalls |-> tools, finish |-> finish]

Chunks ==
  {Chunk(FALSE, <<>>, <<>>, "none")}
  \cup {Chunk(TRUE, c, <<>>, "none") : c \in Fragments}
  \cup {Chunk(TRUE, <<>>, <<t>>, "none") : t \in ToolDeltas}
  \cup {Chunk(TRUE, <<"a">>, <<ToolDelta(0, <<>>, "", <<"b">>)>>, "none")}
  \cup {Chunk(TRUE, <<>>, <<>>, f) : f \in {"stop", "length", "eos"}}
  \cup {Chunk(TRUE, <<"a">>, <<>>, "stop")}

\* A content block of an output item, or the delta of a response.delta.
Block(t, txt, id, name, args) ==
  [type |-> t, text |-> txt, id |-> id, name |-> name, arguments |-> args]

NoBlock == Block("none", <<>>, <<>>, "", <<>>)

\* An event returned by transformChunk: response.created, response.delta
\* (with its delta) or response.completed (with its status and the content
\* of its message item).
TSEvent(t, delta, status, content) ==
  [type |-> t, delta |-> delta, status |-> status, content |-> content]

\* this.state = null
NoState == [live |-> FALSE, currentText |-> <<>>, currentToolCalls |-> <<>>,
            isComplete |-> FALSE]

VARIABLES
  \* ---- ProxyHandler.transformStream ----
  pc,                    \* "reading" while the for loop runs, "returned" after
  line,                  \* the line ReadString returned last
  out,                   \* events written to w, in order
  sequenceNumber,
  sentCreated,
  sentOutputItemAdded,
  sentContentPartAdded,
  fullText,
  buffered,              \* complete lines held in the bufio.Reader's buffer
  nread,                 \* lines the body has delivered so far
  cancelled,             \* the request context is cancelled
  endCause,              \* why the loop ended: none, done, eof, error
  \* history of the run, kept for the properties
  received,              \* non-empty content fragments handled, in order
  finishSeen,            \* a handled chunk carried a finish_reason
  outAtCancel,           \* Len(out) when the context was cancelled, else -1
  \* ---- StreamTransformer ----
  state,                 \* the StreamState, or NoState
  chunk,                 \* the chunk handed to transformChunk last
  tsOut,                 \* events returned for the current stream, in order
  ncalls,               \* calls made on the transformer so far
  \* history of the current stream, kept for the properties
  tsArgs,                \* per tool-call index: the argument fragments received
  tsCalls,               \* the tool-call indexes whose id and name were received
  tsPrev,                \* the StreamState the last reset() dropped, or NoState
  streams,               \* per logical stream sent through one Translator:
                         \* the chunks handed in and the events returned
  \* ---- Registry ----
  providers,             \* r.providers: name -> the provider's configuration
  order,                 \* r.order
  nops,                  \* calls made on the registry so far
  \* history of the registry, kept for the properties
  regSeq,                \* names in the order of their latest Register
  dropped,               \* names in r.order when last registered, as disabled
  regCall,               \* the last Register/Unregister call: which, the name,
                         \* and whether it returned an error
  \* ---- a request served through the provider layer ----
  attempts,              \* the Execute calls made for the last request
  result,                \* what the caller of the last request got
  fallbackEnabled,       \* FallbackConfig.Enabled in force at the last request
  \* history of the request, kept for the properties
  candidates,            \* the other providers in r.order supporting its model
  \* ---- one BaseProvider ----
  client,                \* p.client is set (Initialize has run)
  metrics,               \* p.metrics
  hcPc,                  \* HealthCheck: "idle", or "probing" inside client.Do
                         \* with p.mu locked
  waiting,               \* the call blocked on p.mu, or NoCall
  \* ---- ExecuteStream: the reader goroutine, eventChan and its consumer ----
  pcP,                   \* the goroutine: "scan", "send", "finish", "closed"
  scanned,               \* the kind of the line scanner.Scan() returned last
  pending,               \* the value of the send statement being executed
  eventChan,             \* the values buffered in the channel, oldest first
  nsent,                 \* values the goroutine has sent so far
  \* history of the stream, kept for the properties
  taken,                 \* the values the consumer has received, in order
  \* ---- the translation functions, applied to one input ----
  tin,                   \* the arguments of the call
  tcall,                 \* the function called last, "none" before any call
  tout,                  \* what that call returned or threw
  \* ---- goroutines calling the registry and the provider concurrently ----
  rmu,                   \* r.mu of the Registry
  pmu,                   \* p.mu of the BaseProvider
  goroutines             \* per goroutine: "idle" or the statement it is at

bridgeVars ==
  <<pc, line, out, sequenceNumber, sentCreated, sentOutputItemAdded,
    sentContentPartAdded, fullText, buffered, nread, cancelled, endCause,
    received, finishSeen, outAtCancel>>

tsVars == <<state, chunk, tsOut, ncalls, tsArgs, tsCalls, tsPrev, streams>>

regVars == <<providers, order, nops, regSeq, dropped, regCall>>

reqVars == <<attempts, result, fallbackEnabled, candidates>>

provVars == <<client, metrics, hcPc, waiting>>

chanVars == <<pcP, scanned, pending, eventChan, nsent, taken>>

fnVars == <<tin, tcall, tout>>

goVars == <<rmu, pmu, goroutines>>

vars ==
  <<bridgeVars, tsVars, regVars, reqVars, provVars, chanVars, fnVars, goVars>>

(***************************************************************************)
(* transformStream's locals as one record, so that the steps of one loop   *)
(* iteration compose.                                                      *)
(***************************************************************************)
Locals ==
  [out |-> out, seq |-> sequenceNumber, created |-> sentCreated,
   item |-> sentOutputItemAdded, part |-> sentContentPartAdded,
   text |-> fullText]

\* Write one event carrying the current sequence number, then sequenceNumber++.
EmitNoIncrement(st, t, txt) ==
  [st EXCEPT !.out = Append(@, Event(t, st.seq, txt))]

Emit(st, t, txt) ==
  [st EXCEPT !.out = Append(@, Event(t, st.seq, txt)), !.seq = @ + 1]

\* The last event: response.done is written and the loop breaks, with no
\* increment after it.
EmitLast(st, t) ==
  [st EXCEPT !.out = Append(@, Event(t, st.seq, <<>>))]

\* if !sentCreated { response.created; response.in_progress; sentCreated = true }
SendCreated(st) ==
  IF st.created THEN st
  ELSE [Emit(Emit(st, "response.created", <<>>), "response.in_progress", <<>>)
          EXCEPT !.created = TRUE]

\* if !sentOutputItemAdded { response.output_item.added }
SendOutputItemAdded(st) ==
  IF st.item THEN st
  ELSE [Emit(st, "response.output_item.added", <<>>) EXCEPT !.item = TRUE]

\* response.content_part.added written without recording that it was.
SendContentPartAddedUnrecorded(st) ==
  IF st.part THEN st
  ELSE Emit(st, "response.content_part.added", <<>>)

\* if !sentContentPartAdded { response.content_part.added }
SendContentPartAdded(st) ==
  IF st.part THEN st
  ELSE [Emit(st, "response.content_part.added", <<>>) EXCEPT !.part = TRUE]

\* fullText += content; response.output_text.delta carrying content
SendDeltaFullText(st, content) ==
  LET acc == [st EXCEPT !.text = @ \o content]
  IN  Emit(acc, "response.output_text.delta", acc.text)

SendDelta(st, content) ==
  LET acc == [st EXCEPT !.text = @ \o content]
  IN  Emit(acc, "response.output_text.delta", content)

\* One choice of a chunk: only a non-empty string content does anything.
HandleChoice(st, content) ==
  IF content = <<>> THEN st
  ELSE SendDelta(SendContentPartAdded(SendOutputItemAdded(st)), content)

RECURSIVE HandleChoices(_, _)
\* for _, choice := range choices
HandleChoices(st, contents) ==
  IF contents = <<>> THEN st
  ELSE HandleChoices(HandleChoice(st, Head(contents)), Tail(contents))

\* A parsed chunk: created/in_progress first, then the choices.
HandleChunk(st, frame) == HandleChoices(SendCreated(st), frame.contents)

\* if sentContentPartAdded && fullText != "" { response.output_text.done }
SendOutputTextDone(st) ==
  IF st.part /\ st.text # <<>>
  THEN Emit(st, "response.output_text.done", st.text) ELSE st

\* if sentContentPartAdded { response.content_part.done }
SendContentPartDone(st) ==
  IF st.part THEN Emit(st, "response.content_part.done", st.text) ELSE st

\* if sentOutputItemAdded { response.output_item.done }
SendOutputItemDone(st) ==
  IF st.item THEN Emit(st, "response.output_item.done", st.text) ELSE st

\* response.completed: its output item is written with "content": [], so
\* the event carries no text; then response.done.
SendCompleted(st) == Emit(st, "response.completed", <<>>)

FinalizeItemFirst(st) ==
  EmitLast(SendCompleted(
    SendContentPartDone(SendOutputTextDone(SendOutputItemDone(st)))),
    "response.done")

\* The data == "[DONE]" branch.
Finalize(st) ==
  EmitLast(SendCompleted(
    SendOutputItemDone(SendContentPartDone(SendOutputTextDone(st)))),
    "response.done")

Commit(st) ==
  /\ out' = st.out
  /\ sequenceNumber' = st.seq
  /\ sentCreated' = st.created
  /\ sentOutputItemAdded' = st.item
  /\ sentContentPartAdded' = st.part
  /\ fullText' = st.text

BridgeInit ==
  /\ pc = "reading"
  /\ line = Frame("blank", <<>>, "none")
  /\ out = <<>>
  /\ sequenceNumber = 0
  /\ sentCreated = FALSE
  /\ sentOutputItemAdded = FALSE
  /\ sentContentPartAdded = FALSE
  /\ fullText = <<>>
  /\ buffered = 0
  /\ nread = 0
  /\ cancelled = FALSE
  /\ endCause = "none"
  /\ received = <<>>
  /\ finishSeen = FALSE
  /\ outAtCancel = -1

(***************************************************************************)
(* reader.ReadString('\n').  A line already in the bufio buffer is         *)
(* returned without touching the body.  With the buffer empty the body is  *)
(* read: it delivers one or more lines, or ends, or fails; a body whose    *)
(* request context is cancelled fails.  Only the number of buffered lines  *)
(* is kept: what a line holds is chosen when ReadString returns it.        *)
(***************************************************************************)
\* ReadLine: ReadString returns a line, from the buffer or from the body.
ReadLine ==
  \/ /\ buffered > 0
     /\ buffered' = buffered - 1
     /\ nread' = nread
  \/ /\ buffered = 0
     /\ ~cancelled
     /\ \E k \in 1..MaxBurst :
          /\ nread + k <= MaxFrames
          /\ buffered' = k - 1
          /\ nread' = nread + k

\* err != nil: the loop breaks; nothing is written.
ReadFails ==
  /\ pc = "reading"
  /\ buffered = 0
  /\ \E cause \in {"eof", "error"} :
       /\ cancelled => cause = "error"
       /\ endCause' = cause
  /\ pc' = "returned"
  /\ UNCHANGED <<line, out, sequenceNumber, sentCreated, sentOutputItemAdded,
                 sentContentPartAdded, fullText, buffered, nread, cancelled,
                 received, finishSeen, outAtCancel>>
  /\ UNCHANGED <<tsVars, regVars, reqVars, provVars, chanVars, fnVars, goVars>>

SkipLineBadIsFatal ==
  /\ pc = "reading"
  /\ ReadLine
  /\ \E l \in Frames :
       /\ l.kind \in {"blank", "other", "bad"}
       /\ line' = l
       /\ pc' = IF l.kind = "bad" THEN "returned" ELSE pc
  /\ UNCHANGED <<out, sequenceNumber, sentCreated, sentOutputItemAdded,
                 sentContentPartAdded, fullText, cancelled, endCause,
                 received, finishSeen, outAtCancel>>
  /\ UNCHANGED <<tsVars, regVars, reqVars, provVars, chanVars, fnVars, goVars>>

\* An empty line, a line without "data:", or a payload that is not JSON:
\* continue.
SkipLine ==
  /\ pc = "reading"
  /\ ReadLine
  /\ \E l \in Frames :
       /\ l.kind \in {"blank", "other", "bad"}
       /\ line' = l
  /\ UNCHANGED <<pc, out, sequenceNumber, sentCreated, sentOutputItemAdded,
                 sentContentPartAdded, fullText, cancelled, endCause,
                 received, finishSeen, outAtCancel>>
  /\ UNCHANGED <<tsVars, regVars, reqVars, provVars, chanVars, fnVars, goVars>>

\* data: [DONE]: the closing events, then break.
ReadDone ==
  /\ pc = "reading"
  /\ ReadLine
  /\ \E l \in Frames :
       /\ l.kind = "done"
       /\ line' = l
  /\ Commit(Finalize(Locals))
  /\ pc' = "returned"
  /\ endCause' = "done"
  /\ UNCHANGED <<cancelled, received, finishSeen, outAtCancel>>
  /\ UNCHANGED <<tsVars, regVars, reqVars, provVars, chanVars, fnVars, goVars>>

\* A JSON chunk.
ReadChunk ==
  /\ pc = "reading"
  /\ ReadLine
  /\ \E l \in Frames :
       /\ l.kind = "chunk"
       /\ line' = l
       /\ Commit(HandleChunk(Locals, l))
       /\ received' = received \o SelectSeq(l.contents, LAMBDA c : c # <<>>)
       /\ finishSeen' = (finishSeen \/ l.finish # "none")
  /\ UNCHANGED <<pc, cancelled, endCause, outAtCancel>>
  /\ UNCHANGED <<tsVars, regVars, reqVars, provVars, chanVars, fnVars, goVars>>

\* The client disconnects or the deadline passes: r.Context() is cancelled.
Cancel ==
  /\ pc = "reading"
  /\ ~cancelled
  /\ cancelled' = TRUE
  /\ outAtCancel' = Len(out)
  /\ UNCHANGED <<pc, line, out, sequenceNumber, sentCreated,
                 sentOutputItemAdded, sentContentPartAdded, fullText, buffered,
                 nread, endCause, received, finishSeen>>
  /\ UNCHANGED <<tsVars, regVars, reqVars, provVars, chanVars, fnVars, goVars>>

(***************************************************************************)
(* StreamTransformer.  Each operator returns the new StreamState and the   *)
(* events the method returns.                                              *)
(***************************************************************************)
Result(st, evs) == [state |-> st, events |-> evs]

\* FINISH_REASON_MAPPING; "" where the table has no entry.
FINISH_REASON_MAPPING(reason) ==
  CASE reason = "stop" -> "completed"
    [] reason = "length" -> "incomplete"
    [] reason = "tool_calls" -> "completed"
    [] reason = "content_filter" -> "failed"
    [] OTHER -> ""

initializeState(c) ==
  [live |-> TRUE, currentText |-> <<>>, currentToolCalls |-> <<>>,
   isComplete |-> FALSE]

createCreatedEvent(st) == TSEvent("response.created", NoBlock, "", <<>>)

createTextDeltaEvent(st, text) ==
  TSEvent("response.delta", Block("output_text", text, <<>>, "", <<>>), "", <<>>)

\* Position of the accumulator of a tool-call index in currentToolCalls (a Map,
\* kept here in insertion order), 0 when it has none.
ToolCallPos(calls, i) ==
  IF \E k \in 1..Len(calls) : calls[k].index = i
  THEN CHOOSE k \in 1..Len(calls) : calls[k].index = i
  ELSE 0

transformToolCallDelta(st, td) ==
  LET calls0 == st.currentToolCalls
      calls1 == IF ToolCallPos(calls0, td.index) = 0
                THEN Append(calls0, ToolDelta(td.index, <<>>, "", <<>>))
                ELSE calls0
      k      == ToolCallPos(calls1, td.index)
      old    == calls1[k]
      new    == [old EXCEPT
                   !.id = IF td.id # <<>> THEN generateCallId(td.id) ELSE @,
                   !.name = IF td.name # "" THEN td.name ELSE @,
                   !.arguments = @ \o td.arguments]
      st1    == [st EXCEPT !.currentToolCalls = [calls1 EXCEPT ![k] = new]]
  IN  IF td.name # "" \/ td.arguments # <<>>
      THEN Result(st1, <<TSEvent("response.delta",
                           Block("function_call", <<>>, new.id, new.name, td.arguments),
                           "", <<>>)>>)
      ELSE Result(st1, <<>>)

RECURSIVE transformToolCalls(_, _)
\* for (const toolCall of delta.tool_calls)
transformToolCalls(r, tds) ==
  IF tds = <<>> THEN r
  ELSE LET one == transformToolCallDelta(r.state, Head(tds))
       IN  transformToolCalls(Result(one.state, r.events \o one.events), Tail(tds))

transformDelta(st, c) ==
  LET r0 == IF c.content # <<>>
            THEN Result([st EXCEPT !.currentText = @ \o c.content],
                        <<createTextDeltaEvent(st, c.content)>>)
            ELSE Result(st, <<>>)
  IN  transformToolCalls(r0, c.toolCalls)

buildOutputItems(st) ==
  LET text  == IF st.currentText # <<>>
               THEN <<Block("output_text", st.currentText, <<>>, "", <<>>)>>
               ELSE <<>>
      done  == SelectSeq(st.currentToolCalls, LAMBDA c : c.id # <<>> /\ c.name # "")
      calls == [k \in 1..Len(done) |->
                  Block("function_call", <<>>, done[k].id, done[k].name,
                        done[k].arguments)]
  IN  text \o calls

finalizeStream(st, finishReason) ==
  LET st1    == [st EXCEPT !.isComplete = TRUE]
      mapped == FINISH_REASON_MAPPING(finishReason)
      status == IF mapped # "" THEN mapped ELSE "completed"
  IN  Result(st1, <<TSEvent("response.completed", NoBlock, status,
                            buildOutputItems(st1))>>)

transformChunk(st, c) ==
  IF ~st.live
  THEN LET fresh == initializeState(c)
       IN  Result(fresh, <<createCreatedEvent(fresh)>>)
  ELSE IF ~c.hasChoice THEN Result(st, <<>>)
  ELSE IF c.finish # "none" THEN finalizeStream(st, c.finish)
  ELSE transformDelta(st, c)

\* The argument fragments of one tool-call index among a chunk's tool calls.
RECURSIVE ArgsAt(_, _)
ArgsAt(tds, i) ==
  IF tds = <<>> THEN <<>>
  ELSE (IF Head(tds).index = i THEN Head(tds).arguments ELSE <<>>)
       \o ArgsAt(Tail(tds), i)

TSInit ==
  /\ state = NoState
  /\ chunk = Chunk(FALSE, <<>>, <<>>, "none")
  /\ tsOut = <<>>
  /\ ncalls = 0
  /\ tsArgs = [i \in ToolIndexes |-> <<>>]
  /\ tsCalls = {}
  /\ tsPrev = NoState
  /\ streams = [s \in {"A", "B"} |-> [chunks |-> <<>>, events |-> <<>>]]

\* transformer.transformChunk(chunk)
TransformChunk ==
  /\ ncalls < MaxCalls
  /\ \E c \in Chunks :
       LET r == transformChunk(state, c)
       IN  /\ chunk' = c
           /\ state' = r.state
           /\ tsOut' = tsOut \o r.events
           /\ tsArgs' = [i \in ToolIndexes |-> tsArgs[i] \o ArgsAt(c.toolCalls, i)]
           /\ tsCalls' = tsCalls \cup
                {c.toolCalls[k].index : k \in
                   {j \in 1..Len(c.toolCalls) :
                      c.toolCalls[j].id # <<>> /\ c.toolCalls[j].name # ""}}
  /\ ncalls' = ncalls + 1
  /\ UNCHANGED <<tsPrev, streams>>
  /\ UNCHANGED <<bridgeVars, regVars, reqVars, provVars, chanVars, fnVars, goVars>>

ResetKeepsText ==
  /\ ncalls < MaxCalls
  /\ state' = [NoState EXCEPT !.live = state.live,
                              !.currentText = state.currentText]
  /\ tsPrev' = state
  /\ UNCHANGED <<chunk, streams>>
  /\ tsOut' = <<>>
  /\ tsArgs' = [i \in ToolIndexes |-> <<>>]
  /\ tsCalls' = {}
  /\ ncalls' = ncalls + 1
  /\ UNCHANGED <<bridgeVars, regVars, reqVars, provVars, chanVars, fnVars, goVars>>

\* transformer.reset(): this.state = null, so the next chunk starts a new
\* logical stream.
Reset ==
  /\ ncalls < MaxCalls
  /\ state' = NoState
  /\ tsPrev' = state
  /\ UNCHANGED <<chunk, streams>>
  /\ tsOut' = <<>>
  /\ tsArgs' = [i \in ToolIndexes |-> <<>>]
  /\ tsCalls' = {}
  /\ ncalls' = ncalls + 1
  /\ UNCHANGED <<bridgeVars, regVars, reqVars, provVars, chanVars, fnVars, goVars>>

\* translator.transformStreamChunk(chunk) for a chunk of one of two logical
\* streams: getStreamTransformer() returns the translator's one
\* StreamTransformer, created at the first call, and the chunk is handed
\* to its transformChunk.
TransformStreamChunk ==
  /\ ncalls < MaxCalls
  /\ \E s \in DOMAIN streams,
        c \in {d \in Chunks : d.toolCalls = <<>>}
              \cup {Chunk(TRUE, <<>>,
                          <<ToolDelta(0, BackendCallId(0), "f", <<"a">>)>>,
                          "none")} :
       LET r == transformChunk(state, c)
       IN  /\ chunk' = c
           /\ state' = r.state
           /\ tsOut' = tsOut \o r.events
           /\ tsArgs' = [i \in ToolIndexes |-> tsArgs[i] \o ArgsAt(c.toolCalls, i)]
           /\ tsCalls' = tsCalls \cup
                {c.toolCalls[k].index : k \in
                   {j \in 1..Len(c.toolCalls) :
                      c.toolCalls[j].id # <<>> /\ c.toolCalls[j].name # ""}}
           /\ streams' = [streams EXCEPT
                            ![s] = [chunks |-> Append(@.chunks, c),
                                    events |-> @.events \o r.events]]
  /\ ncalls' = ncalls + 1
  /\ UNCHANGED tsPrev
  /\ UNCHANGED <<bridgeVars, regVars, reqVars, provVars, chanVars, fnVars, goVars>>

(***************************************************************************)
(* Registry: the providers by name and the order GetByModel walks.         *)
(***************************************************************************)
ProviderNames == {"zai", "openai", "anthropic"}

\* ProviderConfig.Priority: lower number = higher priority.
Priorities == {1, 2, 5}

\* Model names and patterns, as sequences of their parts.
ModelNames == {<<"glm", "-", "5">>, <<"gpt", "-", "4">>}

ModelPatterns == {<<"glm", "-", "*">>, <<"gpt", "-", "4">>}

\* ProviderConfig.Models of the configurations handed to Register.
ModelLists == {<<pat>> : pat \in ModelPatterns}

ProviderConfig(p, e, ms) == [priority |-> p, enabled |-> e, models |-> ms]

ProviderConfigs ==
  {ProviderConfig(p, e, ms) : p \in Priorities, e \in BOOLEAN, ms \in ModelLists}

RECURSIVE filepathMatch(_, _)
\* filepath.Match of a well-formed pattern whose only metacharacter is *:
\* a * matches any run of parts without a "/", every other part matches
\* itself.
filepathMatch(pattern, model) ==
  IF pattern = <<>> THEN model = <<>>
  ELSE IF Head(pattern) = "*"
  THEN \/ filepathMatch(Tail(pattern), model)
       \/ /\ model # <<>>
          /\ Head(model) # "/"
          /\ filepathMatch(pattern, Tail(model))
  ELSE /\ model # <<>>
       /\ Head(model) = Head(pattern)
       /\ filepathMatch(Tail(pattern), Tail(model))

\* strings.HasSuffix(pattern, "-*") && strings.HasPrefix(model, prefix)
PrefixMatch(pattern, model) ==
  /\ Len(pattern) >= 2
  /\ SubSeq(pattern, Len(pattern) - 1, Len(pattern)) = <<"-", "*">>
  /\ Len(model) >= Len(pattern) - 1
  /\ SubSeq(model, 1, Len(pattern) - 1) = SubSeq(pattern, 1, Len(pattern) - 1)

\* BaseProvider.SupportsModel
SupportsModel(config, model) ==
  \E k \in 1..Len(config.models) :
    LET pattern == config.models[k]
    IN  \/ filepathMatch(pattern, model)
        \/ PrefixMatch(pattern, model)
        \/ pattern = model

\* The order as it is, name included.
KeepName(ord, name) == ord

\* The order without name.
RemoveName(ord, name) == SelectSeq(ord, LAMBDA n : n # name)

updateOrderIgnoresEnabled(ord, name, priority, enabled) ==
  LET newOrder == RemoveName(ord, name)
      at == {i \in 0..(Len(newOrder) - 1) : i >= priority - 1}
  IN  IF at # {}
      THEN LET i == CHOOSE j \in at : \A k \in at : j <= k
           IN  SubSeq(newOrder, 1, i) \o <<name>>
                 \o SubSeq(newOrder, i + 1, Len(newOrder))
      ELSE Append(newOrder, name)

\* Registry.updateOrder: name is taken out of the order and, if enabled,
\* put back at the first index i with i >= priority-1, or at the end when
\* there is no such index.
updateOrder(ord, name, priority, enabled) ==
  LET newOrder == RemoveName(ord, name)
      at == {i \in 0..(Len(newOrder) - 1) : i >= priority - 1}
  IN  IF ~enabled THEN newOrder
      ELSE IF at # {}
      THEN LET i == CHOOSE j \in at : \A k \in at : j <= k
           IN  SubSeq(newOrder, 1, i) \o <<name>>
                 \o SubSeq(newOrder, i + 1, Len(newOrder))
      ELSE Append(newOrder, name)

\* Registry.Get: whether name is registered.
Get(name) == name \in DOMAIN providers

\* Registry.List
List == order

NoProvider == "none"

\* Registry.GetByModel: the first name in r.order whose provider supports
\* the model, or an error.
GetByModel(model) ==
  LET hits == {k \in 1..Len(order) : SupportsModel(providers[order[k]], model)}
  IN  IF hits = {} THEN NoProvider
      ELSE order[CHOOSE k \in hits : \A j \in hits : k <= j]

\* Registry.GetDefault
GetDefault == IF order = <<>> THEN NoProvider ELSE order[1]

RegInit ==
  /\ providers = <<>>
  /\ order = <<>>
  /\ nops = 0
  /\ regSeq = <<>>
  /\ dropped = {}
  /\ regCall = [op |-> "none", name |-> "none", err |-> FALSE]

\* A Register that stores the provider before it calls Initialize.
RegisterStoresFirst ==
  /\ nops < MaxOps
  /\ nops' = nops + 1
  /\ \E name \in ProviderNames, config \in ProviderConfigs, initOk \in BOOLEAN :
       /\ providers' = [n \in DOMAIN providers \cup {name} |->
                          IF n = name THEN config ELSE providers[n]]
       /\ IF initOk
          THEN /\ order' = updateOrder(order, name, config.priority, config.enabled)
               /\ regSeq' = Append(RemoveName(regSeq, name), name)
               /\ dropped' =
                    IF ~config.enabled /\ \E k \in 1..Len(order) : order[k] = name
                    THEN dropped \cup {name} ELSE dropped \ {name}
               /\ regCall' = [op |-> "Register", name |-> name, err |-> FALSE]
          ELSE /\ regCall' = [op |-> "Register", name |-> name, err |-> TRUE]
               /\ UNCHANGED <<order, regSeq, dropped>>
  /\ UNCHANGED <<bridgeVars, tsVars, reqVars, provVars, chanVars, fnVars, goVars>>

\* Registry.Register(provider, config): a failing Initialize returns before
\* anything is stored.
Register ==
  /\ nops < MaxOps
  /\ nops' = nops + 1
  /\ \E name \in ProviderNames, config \in ProviderConfigs, initOk \in BOOLEAN :
       IF initOk
       THEN /\ providers' = [n \in DOMAIN providers \cup {name} |->
                               IF n = name THEN config ELSE providers[n]]
            /\ order' = updateOrder(order, name, config.priority, config.enabled)
            /\ regSeq' = Append(RemoveName(regSeq, name), name)
            /\ dropped' =
                 IF ~config.enabled /\ \E k \in 1..Len(order) : order[k] = name
                 THEN dropped \cup {name} ELSE dropped \ {name}
            /\ regCall' = [op |-> "Register", name |-> name, err |-> FALSE]
       ELSE /\ regCall' = [op |-> "Register", name |-> name, err |-> TRUE]
            /\ UNCHANGED <<providers, order, regSeq, dropped>>
  /\ UNCHANGED <<bridgeVars, tsVars, reqVars, provVars, chanVars, fnVars, goVars>>

\* Registry.Unregister(name): an unknown name or a failing Shutdown returns
\* before anything is removed.
Unregister ==
  /\ nops < MaxOps
  /\ nops' = nops + 1
  /\ \E name \in ProviderNames, shutdownOk \in BOOLEAN :
       IF name \in DOMAIN providers /\ shutdownOk
       THEN /\ providers' = [n \in DOMAIN providers \ {name} |-> providers[n]]
            /\ order' = RemoveName(order, name)
            /\ regSeq' = RemoveName(regSeq, name)
            /\ dropped' = dropped \ {name}
            /\ regCall' = [op |-> "Unregister", name |-> name, err |-> FALSE]
       ELSE /\ regCall' = [op |-> "Unregister", name |-> name, err |-> TRUE]
            /\ UNCHANGED <<providers, order, regSeq, dropped>>
  /\ UNCHANGED <<bridgeVars, tsVars, reqVars, provVars, chanVars, fnVars, goVars>>

(***************************************************************************)
(* Provider.Execute and the request path through the provider layer.       *)
(***************************************************************************)
\* http.StatusOK
StatusOK == 200

\* Statuses from this one on make a ProviderError retryable and
\* fallback-eligible.
ServerErrorFrom == 500

\* Backend statuses tried.
Statuses == {200, 201, 404, 499, 500, 503}

\* What the backend does with one POST: client.Do fails (no status), or a
\* status comes back with a body that cannot be read, is not JSON, or is
\* JSON.
TransportFailure == [status |-> 0, body |-> "none"]

BackendReplies ==
  {TransportFailure} \cup
  {[status |-> st, body |-> b] : st \in Statuses,
                                 b \in {"unreadable", "garbage", "json"}}

\* What a call returns: kind is "response" (a value and a nil error),
\* "error" (a plain error) or "ProviderError"; success is the flag the call
\* hands to RecordRequest.
Outcome(kind, status, retryable, fallback, success) ==
  [kind |-> kind, httpStatus |-> status, retryable |-> retryable,
   fallback |-> fallback, success |-> success]

NoOutcome == Outcome("none", 0, FALSE, FALSE, FALSE)

\* &ProviderError{HTTPStatus, Retryable: status >= 500, Fallback: status >= 500}
ProviderError(status) ==
  Outcome("ProviderError", status, status >= ServerErrorFrom,
          status >= ServerErrorFrom, FALSE)

\* ZaiProvider.Execute and OpenAIProvider.Execute, from client.Do on.
Execute(reply) ==
  IF reply = TransportFailure THEN Outcome("error", 0, FALSE, FALSE, FALSE)
  ELSE IF reply.body = "unreadable"
  THEN Outcome("error", 0, FALSE, FALSE, FALSE)
  ELSE IF reply.status # StatusOK THEN ProviderError(reply.status)
  ELSE IF reply.body # "json" THEN Outcome("error", 0, FALSE, FALSE, FALSE)
  ELSE Outcome("response", reply.status, FALSE, FALSE, TRUE)

\* OpenAIProvider.ExecuteStream up to the return of the channel: the status
\* is tested before the body is read.
ExecuteStream(reply) ==
  IF reply = TransportFailure THEN Outcome("error", 0, FALSE, FALSE, FALSE)
  ELSE IF reply.status # StatusOK THEN ProviderError(reply.status)
  ELSE Outcome("response", reply.status, FALSE, FALSE, TRUE)

ReqInit ==
  /\ attempts = <<>>
  /\ result = NoOutcome
  /\ fallbackEnabled = TRUE
  /\ candidates = <<>>

\* One request through the provider layer: Factory.GetProviderForModel,
\* then Execute or ExecuteStream on the provider it returns; what that call
\* returns is what the caller gets. FallbackConfig is never read and no
\* other provider is called.
ExecuteForModel ==
  /\ nops < MaxOps
  /\ nops' = nops + 1
  /\ \E model \in ModelNames, reply \in BackendReplies, fb \in BOOLEAN,
        call \in {"Execute", "ExecuteStream"} :
       LET selected == GetByModel(model)
       IN  /\ fallbackEnabled' = fb
           /\ IF selected = NoProvider
              THEN /\ attempts' = <<>>
                   /\ result' = Outcome("error", 0, FALSE, FALSE, FALSE)
                   /\ candidates' = <<>>
              ELSE /\ attempts' =
                        <<[name |-> selected, model |-> model, call |-> call,
                           reply |-> reply]>>
                   /\ result' = IF call = "Execute" THEN Execute(reply)
                                 ELSE ExecuteStream(reply)
                   /\ candidates' =
                        SelectSeq(order,
                          LAMBDA n : n # selected
                                     /\ SupportsModel(providers[n], model))
  /\ UNCHANGED <<providers, order, regSeq, dropped, regCall>>
  /\ UNCHANGED <<bridgeVars, tsVars, provVars, chanVars, fnVars, goVars>>

(***************************************************************************)
(* BaseProvider: the metrics and the lock p.mu.  RecordRequest and the     *)
(* other short methods hold p.mu for one step; HealthCheck holds it from   *)
(* its first line until it returns, the HTTP probe included.               *)
(***************************************************************************)
\* Latencies measured, in units of time.Duration.
Latencies == {0, 2}

\* ErrorRate as the exact fraction num/den (float64(failed)/float64(total)
\* is the double nearest to it, and two fractions this small that differ
\* have different doubles).
Rate(num, den) == [num |-> num, den |-> den]

\* ErrorRate > 0.5 and ErrorRate > 0.1
Above5(rate) == 2 * rate.num > rate.den

Above1(rate) == 10 * rate.num > rate.den

\* NewBaseProvider: all counters zero, HealthStatus healthy.
NewMetrics ==
  [RequestsTotal |-> 0, RequestsSuccess |-> 0, RequestsFailed |-> 0,
   AverageLatency |-> 0, HealthStatus |-> "healthy", ConsecutiveFail |-> 0,
   ErrorRate |-> Rate(0, 1)]

RecordRequestNotStrict(m, success, latency) ==
  LET total  == m.RequestsTotal + 1
      failed == m.RequestsFailed + (IF success THEN 0 ELSE 1)
      rate   == Rate(failed, total)
  IN  [m EXCEPT
         !.RequestsTotal = total,
         !.RequestsSuccess = @ + (IF success THEN 1 ELSE 0),
         !.RequestsFailed = failed,
         !.AverageLatency = IF total = 1 THEN latency
                            ELSE (9 * @ + latency) \div 10,
         !.ErrorRate = rate,
         !.HealthStatus = IF 2 * rate.num >= rate.den THEN "unhealthy"
                          ELSE IF 10 * rate.num >= rate.den THEN "degraded"
                          ELSE "healthy"]

\* BaseProvider.RecordRequest, under p.mu.
RecordRequest(m, success, latency) ==
  LET total  == m.RequestsTotal + 1
      failed == m.RequestsFailed + (IF success THEN 0 ELSE 1)
      rate   == IF total > 0 THEN Rate(failed, total) ELSE m.ErrorRate
  IN  [m EXCEPT
         !.RequestsTotal = total,
         !.RequestsSuccess = @ + (IF success THEN 1 ELSE 0),
         !.RequestsFailed = failed,
         !.AverageLatency = IF total = 1 THEN latency
                            ELSE (9 * @ + latency) \div 10,
         !.ErrorRate = rate,
         !.HealthStatus = IF Above5(rate) THEN "unhealthy"
                          ELSE IF Above1(rate) THEN "degraded"
                          ELSE "healthy"]

\* The methods that take p.mu: Initialize and RecordRequest lock it,
\* SupportsModel and GetMetrics read-lock it, and Registry.GetByModel calls
\* SupportsModel of the provider.
LockingCalls ==
  {"Initialize", "SupportsModel", "GetMetrics", "RecordRequest", "GetByModel"}

NoCall == "none"

ProvInit ==
  /\ client = FALSE
  /\ metrics = NewMetrics
  /\ hcPc = "idle"
  /\ waiting = NoCall

\* What a call does once it has p.mu.
Perform(call) ==
  /\ client' = (client \/ call = "Initialize")
  /\ IF call = "RecordRequest"
     THEN /\ metrics.RequestsTotal < MaxRequests
          /\ \E success \in BOOLEAN, latency \in Latencies :
               metrics' = RecordRequest(metrics, success, latency)
     ELSE UNCHANGED metrics

\* A goroutine calls one of the methods: it runs at once when p.mu is free
\* and blocks in Lock/RLock while HealthCheck holds p.mu.
Call ==
  /\ waiting = NoCall
  /\ \E call \in LockingCalls :
       IF hcPc = "probing"
       THEN /\ waiting' = call
            /\ UNCHANGED <<client, metrics>>
       ELSE /\ Perform(call)
            /\ UNCHANGED waiting
  /\ UNCHANGED hcPc
  /\ UNCHANGED <<bridgeVars, tsVars, regVars, reqVars, chanVars, fnVars, goVars>>

\* The blocked call gets p.mu after HealthCheck has returned.
Resume ==
  /\ waiting # NoCall
  /\ hcPc = "idle"
  /\ Perform(waiting)
  /\ waiting' = NoCall
  /\ UNCHANGED hcPc
  /\ UNCHANGED <<bridgeVars, tsVars, regVars, reqVars, chanVars, fnVars, goVars>>

\* BaseProvider.HealthCheck up to client.Do: p.mu.Lock(); without a client,
\* or when the request cannot be built, it marks the provider unhealthy and
\* returns; otherwise it sends the probe, still holding p.mu.
HealthCheckBegin ==
  /\ hcPc = "idle"
  /\ \E requestOk \in BOOLEAN :
       IF client /\ requestOk
       THEN /\ hcPc' = "probing"
            /\ UNCHANGED metrics
       ELSE /\ hcPc' = "idle"
            /\ metrics' = [metrics EXCEPT !.HealthStatus = "unhealthy"]
  /\ UNCHANGED <<client, waiting>>
  /\ UNCHANGED <<bridgeVars, tsVars, regVars, reqVars, chanVars, fnVars, goVars>>

\* A probe whose failure is also recorded as a failed request.
HealthCheckEndRecordsFailure ==
  /\ hcPc = "probing"
  /\ hcPc' = "idle"
  /\ \E ok \in BOOLEAN, latency \in Latencies :
       IF ok
       THEN metrics' = [metrics EXCEPT !.ConsecutiveFail = 0,
                                       !.HealthStatus = "healthy",
                                       !.AverageLatency = latency]
       ELSE /\ metrics.ConsecutiveFail < MaxConsecutiveFail
            /\ metrics.RequestsTotal < MaxRequests
            /\ metrics' = [RecordRequest(metrics, FALSE, latency)
                             EXCEPT !.HealthStatus = "unhealthy",
                                    !.ConsecutiveFail = @ + 1]
  /\ UNCHANGED <<client, waiting>>
  /\ UNCHANGED <<bridgeVars, tsVars, regVars, reqVars, chanVars, fnVars, goVars>>

\* client.Do returns (an answer, an error, or the timeout): the metrics are
\* updated and the deferred p.mu.Unlock() runs.
HealthCheckEnd ==
  /\ hcPc = "probing"
  /\ hcPc' = "idle"
  /\ \E ok \in BOOLEAN, latency \in Latencies :
       IF ok
       THEN metrics' = [metrics EXCEPT !.ConsecutiveFail = 0,
                                       !.HealthStatus = "healthy",
                                       !.AverageLatency = latency]
       ELSE /\ metrics.ConsecutiveFail < MaxConsecutiveFail
            /\ metrics' = [metrics EXCEPT !.HealthStatus = "unhealthy",
                                          !.ConsecutiveFail = @ + 1]
  /\ UNCHANGED <<client, waiting>>
  /\ UNCHANGED <<bridgeVars, tsVars, regVars, reqVars, chanVars, fnVars, goVars>>

(***************************************************************************)
(* ExecuteStream after the status check: the goroutine that scans the body *)
(* and sends on eventChan, and the consumer that receives from it.         *)
(***************************************************************************)
\* make(chan interface{}, 100)
ChanCap == 100

\* A value sent on eventChan: a parsed chunk, or the map with type done or
\* error; id numbers the values in the order they are sent.
StreamEvent(id, type) == [id |-> id, type |-> type]

NoEvent == StreamEvent(0, "none")

ChanInit ==
  /\ pcP = "scan"
  /\ scanned = "none"
  /\ pending = NoEvent
  /\ eventChan = <<>>
  /\ nsent = 0
  /\ taken = <<>>

\* scanner.Scan() and the loop body up to the send statement, or the end of
\* the loop: a line without "data: " or with a payload that is not JSON is
\* skipped; a chunk and [DONE] are sent; when Scan returns false the error
\* event is sent if scanner.Err() is not nil.
Scan ==
  /\ pcP = "scan"
  /\ \E kind \in {"other", "bad", "chunk", "done", "eof", "error"} :
       /\ scanned' = kind
       /\ kind = "chunk" => nsent < MaxEvents
       /\ IF kind \in {"other", "bad"}
          THEN UNCHANGED <<pcP, pending>>
          ELSE IF kind = "eof"
          THEN /\ pcP' = "finish"
               /\ UNCHANGED pending
          ELSE /\ pcP' = "send"
               /\ pending' = StreamEvent(nsent + 1, kind)
  /\ UNCHANGED <<eventChan, nsent, taken>>
  /\ UNCHANGED <<bridgeVars, tsVars, regVars, reqVars, provVars, fnVars, goVars>>

SendWithoutBlocking ==
  /\ pcP = "send"
  /\ eventChan' = Append(eventChan, pending)
  /\ nsent' = nsent + 1
  /\ pending' = NoEvent
  /\ pcP' = IF pending.type = "chunk" THEN "scan" ELSE "finish"
  /\ UNCHANGED <<scanned, taken>>
  /\ UNCHANGED <<bridgeVars, tsVars, regVars, reqVars, provVars, fnVars, goVars>>

SendThenScanOn ==
  /\ pcP = "send"
  /\ Len(eventChan) < ChanCap
  /\ eventChan' = Append(eventChan, pending)
  /\ nsent' = nsent + 1
  /\ pending' = NoEvent
  /\ pcP' = IF pending.type = "error" THEN "finish" ELSE "scan"
  /\ UNCHANGED <<scanned, taken>>
  /\ UNCHANGED <<bridgeVars, tsVars, regVars, reqVars, provVars, fnVars, goVars>>

\* eventChan <- value: the send completes only when the buffer has room;
\* after a chunk the loop goes on, after done or error it is over.
Send ==
  /\ pcP = "send"
  /\ Len(eventChan) < ChanCap
  /\ eventChan' = Append(eventChan, pending)
  /\ nsent' = nsent + 1
  /\ pending' = NoEvent
  /\ pcP' = IF pending.type = "chunk" THEN "scan" ELSE "finish"
  /\ UNCHANGED <<scanned, taken>>
  /\ UNCHANGED <<bridgeVars, tsVars, regVars, reqVars, provVars, fnVars, goVars>>

\* After the loop: p.RecordRequest(true, ...), then the deferred
\* Body.Close() and close(eventChan).
Finish ==
  /\ pcP = "finish"
  /\ pcP' = "closed"
  /\ \E latency \in Latencies :
       metrics' = RecordRequest(metrics, TRUE, latency)
  /\ UNCHANGED <<scanned, pending, eventChan, nsent, taken>>
  /\ UNCHANGED <<client, hcPc, waiting>>
  /\ UNCHANGED <<bridgeVars, tsVars, regVars, reqVars, fnVars, goVars>>

\* The consumer receives the oldest buffered value.
Receive ==
  /\ eventChan # <<>>
  /\ taken' = Append(taken, Head(eventChan))
  /\ eventChan' = Tail(eventChan)
  /\ UNCHANGED <<pcP, scanned, pending, nsent>>
  /\ UNCHANGED <<bridgeVars, tsVars, regVars, reqVars, provVars, fnVars, goVars>>

(***************************************************************************)
(* The request transformers: transformRequest of the TypeScript            *)
(* translator, ZaiProvider.TransformRequest and                            *)
(* ProxyHandler.transformRequest.  Texts are sequences of parts, <<>> for  *)
(* an absent or empty text.                                                *)
(***************************************************************************)
\* The items of an input array.  content holds the text of each content
\* block of a message item, text the text of an input_text item or the
\* output of a function_call_output item, url the image of an input_image.
InputItems ==
  { [type |-> "message", role |-> "user", content |-> << <<"a">> >>,
     text |-> <<>>, url |-> <<>>, call_id |-> <<>>],
    [type |-> "message", role |-> "assistant", content |-> << <<"a">>, <<"b">> >>,
     text |-> <<>>, url |-> <<>>, call_id |-> <<>>],
    [type |-> "input_text", role |-> "", content |-> <<>>,
     text |-> <<"b">>, url |-> <<>>, call_id |-> <<>>],
    [type |-> "input_image", role |-> "", content |-> <<>>,
     text |-> <<>>, url |-> <<"u">>, call_id |-> <<>>],
    [type |-> "function_call", role |-> "", content |-> <<>>,
     text |-> <<>>, url |-> <<>>, call_id |-> <<"fc_", "1">>],
    [type |-> "function_call_output", role |-> "", content |-> <<>>,
     text |-> <<"r">>, url |-> <<>>, call_id |-> <<"fc_", "1">>] }

\* request.input: absent, a string or an array of items.
Inputs ==
  {[kind |-> "absent", text |-> <<>>, items |-> <<>>]}
  \cup {[kind |-> "text", text |-> t, items |-> <<>>] : t \in {<<>>, <<"Hello">>}}
  \cup {[kind |-> "items", text |-> <<>>, items |-> is] :
          is \in SeqsUpTo(InputItems, MaxItems)}

\* A request and the options of the translator it is handed to.  The model
\* is "" when absent or empty; an optional number is given by whether it is
\* set and its value; a mapping table is a function from its keys.
RequestInputs ==
  { [kind |-> "request",
     request |-> [model |-> m, input |-> i, instructions |-> s,
                  temperature |-> t, max_output_tokens |-> x],
     options |-> [strict |-> strict, modelMapping |-> mapping]] :
      m \in {"", "gpt-4", "gpt-4o", "custom-model"},
      i \in Inputs,
      s \in {<<>>, <<"Be brief">>},
      t \in {[set |-> FALSE, value |-> 0], [set |-> TRUE, value |-> 1],
              [set |-> TRUE, value |-> 3]},
      x \in {[set |-> FALSE, value |-> 0], [set |-> TRUE, value |-> 0]},
      strict \in BOOLEAN,
      mapping \in {[k \in {} |-> ""], [k \in {"gpt-4"} |-> "glm-5"],
                   [k \in {"custom-model"} |-> "mapped-model"]} }

DEFAULT_MODEL_MAPPING ==
  [k \in {"gpt-4.1", "gpt-4o", "gpt-4o-2024-08-06", "gpt-5", "gpt-4-turbo",
          "gpt-4", "gpt-3.5-turbo"} |->
     IF k = "gpt-3.5-turbo" THEN "glm-3-turbo" ELSE "glm-5"]

\* validateResponsesRequest: the fields found in error, in order.  !x is
\* true of an absent field and of an empty string, not of an empty array.
validateResponsesRequest(request) ==
  (IF request.model = "" THEN <<"model">> ELSE <<>>)
  \o (IF \/ request.input.kind = "absent"
         \/ request.input.kind = "text" /\ request.input.text = <<>>
      THEN <<"input">> ELSE <<>>)
  \o (IF /\ request.temperature.set
         /\ (request.temperature.value < 0 \/ request.temperature.value > 2)
      THEN <<"temperature">> ELSE <<>>)
  \o (IF request.max_output_tokens.set /\ request.max_output_tokens.value < 1
      THEN <<"max_output_tokens">> ELSE <<>>)

\* One message of the backend request.  tool_call_id is <<>> when absent;
\* item is the position of the input item the message was made from, 0 for
\* a message made from the instructions or from a string input.
ChatMessage(role, content, toolCallId, item) ==
  [role |-> role, content |-> content, tool_call_id |-> toolCallId,
   item |-> item]

RECURSIVE JoinLines(_)
\* parts.join('\n'), strings.Join(parts, "\n")
JoinLines(parts) ==
  IF parts = <<>> THEN <<>>
  ELSE IF Len(parts) = 1 THEN parts[1]
  ELSE parts[1] \o <<"\n">> \o JoinLines(Tail(parts))

\* transformMessageContent: the non-empty texts of the blocks, joined.
transformMessageContent(content) ==
  JoinLines(SelectSeq(content, LAMBDA t : t # <<>>))

RECURSIVE transformInputItems(_, _)
\* transformInputItems, from item k on.
transformInputItems(items, k) ==
  IF k > Len(items) THEN <<>>
  ELSE LET item == items[k]
           made ==
             CASE item.type = "message" ->
                    <<ChatMessage(item.role, transformMessageContent(item.content),
                                  <<>>, k)>>
               [] item.type = "input_text" ->
                    <<ChatMessage("user", item.text, <<>>, k)>>
               [] item.type = "input_image" ->
                    <<ChatMessage("user", <<"image_url">> \o item.url, <<>>, k)>>
               [] OTHER -> <<>>
       IN  made \o transformInputItems(items, k + 1)

transformInputToMessagesSystemLast(request) ==
  (CASE request.input.kind = "text" ->
          <<ChatMessage("user", request.input.text, <<>>, 0)>>
     [] request.input.kind = "items" ->
          transformInputItems(request.input.items, 1)
     [] OTHER -> <<>>)
  \o (IF request.instructions # <<>>
      THEN <<ChatMessage("system", request.instructions, <<>>, 0)>> ELSE <<>>)

transformInputToMessages(request) ==
  (IF request.instructions # <<>>
   THEN <<ChatMessage("system", request.instructions, <<>>, 0)>> ELSE <<>>)
  \o (CASE request.input.kind = "text" ->
             <<ChatMessage("user", request.input.text, <<>>, 0)>>
        [] request.input.kind = "items" ->
             transformInputItems(request.input.items, 1)
        [] OTHER -> <<>>)

\* The backend request; maxTokens names the field the limit is copied to.
ChatCompletionRequest(model, messages, temperature, field, maxTokens) ==
  [model |-> model, messages |-> messages, temperature |-> temperature,
   max_tokens_field |-> IF maxTokens.set THEN field ELSE "",
   max_tokens |-> maxTokens]

\* What a transformer call gives: a value, or an error and no value.
Returned(value) == [ok |-> TRUE, value |-> value, errors |-> <<>>]

Thrown(errors) == [ok |-> FALSE, value |-> <<>>, errors |-> errors]

\* transformRequest of the TypeScript translator.  The mapping in force is
\* { ...DEFAULT_MODEL_MAPPING, ...options.modelMapping }; the model is
\* modelMapping[request.model] || request.model.
transformRequest(request, options) ==
  LET given == options.modelMapping
      modelMapping ==
        [k \in DOMAIN DEFAULT_MODEL_MAPPING \cup DOMAIN given |->
           IF k \in DOMAIN given THEN given[k] ELSE DEFAULT_MODEL_MAPPING[k]]
      model == request.model
      errors == validateResponsesRequest(request)
  IN  IF options.strict /\ Len(errors) > 0
      THEN Thrown(errors)
      ELSE Returned(ChatCompletionRequest(
             IF model \in DOMAIN modelMapping /\ modelMapping[model] # ""
             THEN modelMapping[model] ELSE model,
             transformInputToMessages(request),
             request.temperature, "max_completion_tokens",
             request.max_output_tokens))

\* ZaiProvider.mapModel
mapModel(model) ==
  CASE model = "gpt-4.1" -> "glm-5"
    [] model = "gpt-4.1-mini" -> "glm-5-flash"
    [] model = "gpt-4" -> "glm-4"
    [] model = "gpt-4-turbo" -> "glm-4-turbo"
    [] model = "gpt-3.5-turbo" -> "glm-3-turbo"
    [] OTHER -> model

\* ZaiProvider.transformInputItem: the message, or none; transformContent
\* joins the texts of all the blocks.
ZaiTransformInputItem(item, k) ==
  CASE item.type = "message" ->
         <<ChatMessage(item.role, JoinLines(item.content), <<>>, k)>>
    [] item.type = "input_text" ->
         <<ChatMessage("user", item.text, <<>>, k)>>
    [] item.type = "function_call_output" ->
         <<ChatMessage("tool", item.text, item.call_id, k)>>
    [] OTHER -> <<>>

\* ZaiProvider.TransformRequest
ZaiTransformRequest(request) ==
  LET RECURSIVE Items(_)
      \* for _, item := range v: every message made is appended, from item k
      Items(k) ==
        IF k > Len(request.input.items) THEN <<>>
        ELSE ZaiTransformInputItem(request.input.items[k], k) \o Items(k + 1)
  IN  Returned(ChatCompletionRequest(
        mapModel(request.model),
        (IF request.instructions # <<>>
         THEN <<ChatMessage("system", request.instructions, <<>>, 0)>> ELSE <<>>)
        \o (CASE request.input.kind = "text" ->
                   <<ChatMessage("user", request.input.text, <<>>, 0)>>
              [] request.input.kind = "items" -> Items(1)
              [] OTHER -> <<>>),
        request.temperature, "max_completion_tokens", request.max_output_tokens))

\* ProxyHandler.transformInputItem: an item with a role user, assistant or
\* system gives a message with the text of its first content block.
ProxyTransformInputItem(item, k) ==
  IF item.role \in {"user", "assistant", "system"}
  THEN <<ChatMessage(item.role,
                     IF item.content # <<>> THEN item.content[1] ELSE <<>>,
                     <<>>, k)>>
  ELSE <<>>

\* ProxyHandler.transformRequest
ProxyTransformRequest(request) ==
  LET RECURSIVE Items(_)
      \* for _, item := range v: every message made is appended, from item k
      Items(k) ==
        IF k > Len(request.input.items) THEN <<>>
        ELSE ProxyTransformInputItem(request.input.items[k], k) \o Items(k + 1)
  IN  Returned(ChatCompletionRequest(
        request.model,
        (IF request.instructions # <<>>
         THEN <<ChatMessage("system", request.instructions, <<>>, 0)>> ELSE <<>>)
        \o (CASE request.input.kind = "text" ->
                   <<ChatMessage("user", request.input.text, <<>>, 0)>>
              [] request.input.kind = "items" -> Items(1)
              [] OTHER -> <<>>),
        request.temperature, "max_tokens", request.max_output_tokens))

\* No call has been made and none is chosen.
FnInit ==
  /\ tin = [kind |-> "none"]
  /\ tcall = "none"
  /\ tout = Thrown(<<>>)

\* translator.transformRequest(request) with the translator's options.
CallTransformRequest ==
  /\ tin.kind = "request"
  /\ tcall' = "transformRequest"
  /\ tout' = transformRequest(tin.request, tin.options)
  /\ UNCHANGED tin
  /\ UNCHANGED <<bridgeVars, tsVars, regVars, reqVars, provVars, chanVars, goVars>>

\* provider.TransformRequest(req) of the z.ai provider.
CallZaiTransformRequest ==
  /\ tin.kind = "request"
  /\ tcall' = "ZaiProvider.TransformRequest"
  /\ tout' = ZaiTransformRequest(tin.request)
  /\ UNCHANGED tin
  /\ UNCHANGED <<bridgeVars, tsVars, regVars, reqVars, provVars, chanVars, goVars>>

\* h.transformRequest(req) in handleCreateResponse.
CallProxyTransformRequest ==
  /\ tin.kind = "request"
  /\ tcall' = "ProxyHandler.transformRequest"
  /\ tout' = ProxyTransformRequest(tin.request)
  /\ UNCHANGED tin
  /\ UNCHANGED <<bridgeVars, tsVars, regVars, reqVars, provVars, chanVars, goVars>>

(***************************************************************************)
(* The response transformers: transformResponse of the TypeScript          *)
(* translator, ZaiProvider.TransformResponse and                           *)
(* ProxyHandler.transformResponse.  Ids are sequences of parts, the        *)
(* prefixes resp_, msg_, call_ and fc_ being parts of their own.           *)
(***************************************************************************)
\* A backend response and the translator's options: the response's id
\* (<<>> when absent) and its choices, each with its finish_reason ("none"
\* for null), the message's content (<<>> for null) and its tool calls.
\* The first choice ranges over every combination; the choices after it,
\* which no transformer reads, over two that differ from one another.
\* The usage, model and created fields are copied and are left out.
ResponseInputs ==
  { [kind |-> "response",
     response |-> [id |-> id, choices |-> cs],
     options |-> [includeMetadata |-> meta]] :
      id \in {<<>>, <<"chatcmpl-", "1">>},
      cs \in {<<>>} \cup
             { <<first>> \o later :
                 first \in { [finish |-> f, content |-> c, tool_calls |-> t] :
                             f \in {"none", "stop", "length", "tool_calls",
                                    "content_filter", "function_call"},
                             c \in {<<>>, <<"a">>},
                             t \in {<<>>, <<ToolDelta(0, BackendCallId(0), "f", <<"a">>)>>} },
                 later \in SeqsUpTo(
                             { [finish |-> "length", content |-> <<"a">>, tool_calls |-> <<>>],
                               [finish |-> "stop", content |-> <<>>, tool_calls |-> <<>>] },
                             MaxChoices - 1) },
      meta \in BOOLEAN }

\* generateId(): two random base-36 strings, one of these.
RandomIds == {<<"r1">>, <<"r2">>}

\* generateResponseId(originalId); random is what generateId() returns.
generateResponseId(originalId, random) ==
  IF originalId # <<>>
  THEN IF Head(originalId) = "resp_" THEN originalId ELSE <<"resp_">> \o originalId
  ELSE <<"resp_">> \o random

\* generateMessageId(originalId)
generateMessageId(originalId, random) ==
  IF originalId # <<>>
  THEN IF Head(originalId) = "msg_" THEN originalId ELSE <<"msg_">> \o originalId
  ELSE <<"msg_">> \o random

\* A canonical response: its id, status, output items and the original id
\* kept in its metadata (<<>> when there is none).
ResponsesResponse(id, status, output, originalId) ==
  [id |-> id, status |-> status, output |-> output, original_id |-> originalId]

\* The message item of a response's output.
OutputItem(id, content) ==
  [type |-> "message", id |-> id, role |-> "assistant", content |-> content]

\* transformResponse of the TypeScript translator, with
\* transformChoiceToOutputItems.
transformResponse(response, options, random) ==
  IF response.choices = <<>>
  THEN Thrown(<<"No choices in Chat Completions response">>)
  ELSE LET choice == response.choices[1]
           text == IF choice.content # <<>>
                   THEN <<Block("output_text", choice.content, <<>>, "", <<>>)>>
                   ELSE <<>>
           calls == [k \in 1..Len(choice.tool_calls) |->
                       Block("function_call", <<>>,
                             generateCallId(choice.tool_calls[k].id),
                             choice.tool_calls[k].name,
                             choice.tool_calls[k].arguments)]
           status == IF /\ choice.finish # "none"
                        /\ FINISH_REASON_MAPPING(choice.finish) # ""
                     THEN FINISH_REASON_MAPPING(choice.finish)
                     ELSE "completed"
       IN  Returned(ResponsesResponse(
             generateResponseId(response.id, random), status,
             <<OutputItem(generateMessageId(<<>>, random), text \o calls)>>,
             IF options.includeMetadata THEN response.id ELSE <<>>))

\* ZaiProvider.TransformResponse of a JSON object.  The arguments of a
\* tool call, a string in the backend's response, are asserted to be a map
\* without the two-value form, which panics.
ZaiTransformResponse(response, random) ==
  IF response.choices # <<>> /\ response.choices[1].tool_calls # <<>>
  THEN Thrown(<<"panic: interface conversion">>)
  ELSE Returned(ResponsesResponse(
         <<"resp_">> \o random, "completed",
         IF response.choices # <<>>
         THEN LET content == response.choices[1].content
              IN  <<OutputItem(<<>>,
                      IF content # <<>>
                      THEN <<Block("output_text", content, <<>>, "", <<>>)>>
                      ELSE <<>>)>>
         ELSE <<>>,
         <<>>))

mapFinishReason(reason) ==
  CASE reason = "stop" -> "completed"
    [] reason = "length" -> "incomplete"
    [] reason = "tool_calls" -> "completed"
    [] OTHER -> "failed"

\* ProxyHandler.transformResponse
ProxyTransformResponse(response, random) ==
  Returned(ResponsesResponse(
    <<"resp_">> \o random,
    IF response.choices # <<>> /\ response.choices[1].finish # "none"
    THEN mapFinishReason(response.choices[1].finish) ELSE "completed",
    IF response.choices # <<>>
    THEN LET content == response.choices[1].content
         IN  <<OutputItem(<<"msg_">> \o random,
                 IF content # <<>>
                 THEN <<Block("output_text", content, <<>>, "", <<>>)>>
                 ELSE <<>>)>>
    ELSE <<>>,
    <<>>))

\* translator.transformResponse(response) with the translator's options.
CallTransformResponse ==
  /\ tin.kind = "response"
  /\ tcall' = "transformResponse"
  /\ \E random \in RandomIds :
       tout' = transformResponse(tin.response, tin.options, random)
  /\ UNCHANGED tin
  /\ UNCHANGED <<bridgeVars, tsVars, regVars, reqVars, provVars, chanVars, goVars>>

\* provider.TransformResponse(resp) of the z.ai provider.
CallZaiTransformResponse ==
  /\ tin.kind = "response"
  /\ tcall' = "ZaiProvider.TransformResponse"
  /\ \E random \in RandomIds :
       tout' = ZaiTransformResponse(tin.response, random)
  /\ UNCHANGED tin
  /\ UNCHANGED <<bridgeVars, tsVars, regVars, reqVars, provVars, chanVars, goVars>>

\* h.transformResponse(chatResp) in handleNonStreamingResponse.
CallProxyTransformResponse ==
  /\ tin.kind = "response"
  /\ tcall' = "ProxyHandler.transformResponse"
  /\ \E random \in RandomIds :
       tout' = ProxyTransformResponse(tin.response, random)
  /\ UNCHANGED tin
  /\ UNCHANGED <<bridgeVars, tsVars, regVars, reqVars, provVars, chanVars, goVars>>

(***************************************************************************)
(* The id functions of the translator and BaseProvider.SupportsModel,      *)
(* called on their own.                                                    *)
(***************************************************************************)
\* A non-empty id handed to generateResponseId, generateMessageId or
\* generateCallId.
IdInputs ==
  { [kind |-> "id", id |-> x] :
      x \in SeqsUpTo({"resp_", "msg_", "call_", "fc_", "x"}, MaxIdParts) \ {<<>>} }

\* The argument of a call of an id function: the id it returned last when
\* it is called again on its own result, else the id chosen.
IdArgument(function) == IF tcall = function THEN tout.value ELSE tin.id

\* id = generateResponseId(id)
CallGenerateResponseId ==
  /\ tin.kind = "id"
  /\ Len(IdArgument("generateResponseId")) <= MaxIdParts + 1
  /\ tcall' = "generateResponseId"
  /\ \E random \in RandomIds :
       tout' = Returned(generateResponseId(IdArgument("generateResponseId"), random))
  /\ UNCHANGED tin
  /\ UNCHANGED <<bridgeVars, tsVars, regVars, reqVars, provVars, chanVars, goVars>>

\* id = generateMessageId(id)
CallGenerateMessageId ==
  /\ tin.kind = "id"
  /\ Len(IdArgument("generateMessageId")) <= MaxIdParts + 1
  /\ tcall' = "generateMessageId"
  /\ \E random \in RandomIds :
       tout' = Returned(generateMessageId(IdArgument("generateMessageId"), random))
  /\ UNCHANGED tin
  /\ UNCHANGED <<bridgeVars, tsVars, regVars, reqVars, provVars, chanVars, goVars>>

\* id = generateCallId(id)
CallGenerateCallId ==
  /\ tin.kind = "id"
  /\ Len(IdArgument("generateCallId")) <= MaxIdParts + 1
  /\ tcall' = "generateCallId"
  /\ tout' = Returned(generateCallId(IdArgument("generateCallId")))
  /\ UNCHANGED tin
  /\ UNCHANGED <<bridgeVars, tsVars, regVars, reqVars, provVars, chanVars, goVars>>

\* config.Models of a provider and the model asked for.  A model name may
\* hold a "/" (organisation/model); no pattern here is malformed.
MatchInputs ==
  { [kind |-> "match", models |-> ps, model |-> m] :
      ps \in SeqsUpTo({ <<"glm", "-", "*">>, <<"glm", "*">>, <<"*">>,
                        <<"gpt", "-", "4">>, <<"glm", "-", "*", "-", "x">> },
                      MaxPatterns),
      m \in { <<"glm", "-", "5">>, <<"glm", "-", "4", ".7">>, <<"gpt", "-", "4">>,
              <<"glm">>, <<"glm", "-", "5", "-", "x">>, <<"glm", "-", "org", "/", "5">>,
              <<"org", "/", "glm", "-", "5">> } }

\* provider.SupportsModel(model)
CallSupportsModel ==
  /\ tin.kind = "match"
  /\ tcall' = "SupportsModel"
  /\ tout' = Returned(SupportsModel([models |-> tin.models], tin.model))
  /\ UNCHANGED tin
  /\ UNCHANGED <<bridgeVars, tsVars, regVars, reqVars, provVars, chanVars, goVars>>

(***************************************************************************)
(* Goroutines calling the Registry and one registered BaseProvider at the  *)
(* same time.  r.mu and p.mu are sync.RWMutex values; a goroutine is       *)
(* "idle" or at the statement named by its state.                          *)
(***************************************************************************)
Goroutines == {"g1", "g2"}

\* A sync.RWMutex: the goroutine holding it for writing, the goroutines
\* inside Lock(), the goroutines holding it for reading and those blocked
\* in RLock().
NewRWMutex == [w |-> "none", pending |-> {}, readers |-> {}, queued |-> {}]

\* mu.RLock() by g: it returns at once unless a writer holds mu or waits
\* for it; a blocked reader runs when it is among the readers.
RLock(mu, g) ==
  IF mu.w = "none" /\ mu.pending = {}
  THEN [mu EXCEPT !.readers = @ \cup {g}]
  ELSE [mu EXCEPT !.queued = @ \cup {g}]

\* mu.Lock() by g returns: no writer and no reader holds mu.
Lock(mu, g) == [mu EXCEPT !.w = g, !.pending = @ \ {g}]

UnlockWithoutWaking(mu) == [mu EXCEPT !.w = "none"]

\* mu.Unlock(): the readers blocked meanwhile are let in before any writer.
Unlock(mu) == [mu EXCEPT !.w = "none", !.readers = mu.queued, !.queued = {}]

GoInit ==
  /\ rmu = NewRWMutex
  /\ pmu = NewRWMutex
  /\ goroutines = [g \in Goroutines |-> "idle"]

\* Registry.Register(p, config) with p's name "zai": r.mu.Lock();
\* p.Initialize(config), which locks p.mu, sets p.client and returns nil;
\* the provider is stored and the order updated; r.mu.Unlock().
RegisterSteps(g) ==
  /\ \/ /\ goroutines[g] = "idle"
        /\ goroutines' = [goroutines EXCEPT ![g] = "Register r.mu.Lock"]
        /\ rmu' = [rmu EXCEPT !.pending = @ \cup {g}]
        /\ UNCHANGED <<pmu, providers, order, client>>
     \/ /\ goroutines[g] = "Register r.mu.Lock"
        /\ rmu.w = "none" /\ rmu.readers = {}
        /\ rmu' = Lock(rmu, g)
        /\ pmu' = [pmu EXCEPT !.pending = @ \cup {g}]
        /\ goroutines' = [goroutines EXCEPT ![g] = "Register p.mu.Lock"]
        /\ UNCHANGED <<providers, order, client>>
     \/ /\ goroutines[g] = "Register p.mu.Lock"
        /\ pmu.w = "none" /\ pmu.readers = {}
        /\ \E enabled \in BOOLEAN :
             LET config == ProviderConfig(1, enabled, <<<<"glm", "-", "*">>>>)
             IN  /\ providers' = [n \in DOMAIN providers \cup {"zai"} |->
                                    IF n = "zai" THEN config ELSE providers[n]]
                 /\ order' = updateOrder(order, "zai", config.priority,
                                         config.enabled)
        /\ client' = TRUE
        /\ pmu' = Unlock(Lock(pmu, g))
        /\ rmu' = Unlock(rmu)
        /\ goroutines' = [goroutines EXCEPT ![g] = "idle"]
  /\ UNCHANGED <<metrics, hcPc, waiting, nops, regSeq, dropped, regCall>>
  /\ UNCHANGED <<bridgeVars, tsVars, reqVars, chanVars, fnVars>>

\* Registry.Unregister("zai"): r.mu.Lock(); an unknown name returns an
\* error; otherwise p.Shutdown(), which locks p.mu and returns nil, then the
\* provider is deleted and taken out of the order; r.mu.Unlock().
UnregisterSteps(g) ==
  /\ \/ /\ goroutines[g] = "idle"
        /\ goroutines' = [goroutines EXCEPT ![g] = "Unregister r.mu.Lock"]
        /\ rmu' = [rmu EXCEPT !.pending = @ \cup {g}]
        /\ UNCHANGED <<pmu, providers, order>>
     \/ /\ goroutines[g] = "Unregister r.mu.Lock"
        /\ rmu.w = "none" /\ rmu.readers = {}
        /\ IF "zai" \in DOMAIN providers
           THEN /\ rmu' = Lock(rmu, g)
                /\ pmu' = [pmu EXCEPT !.pending = @ \cup {g}]
                /\ goroutines' = [goroutines EXCEPT ![g] = "Unregister p.mu.Lock"]
           ELSE /\ rmu' = Unlock(Lock(rmu, g))
                /\ goroutines' = [goroutines EXCEPT ![g] = "idle"]
                /\ UNCHANGED pmu
        /\ UNCHANGED <<providers, order>>
     \/ /\ goroutines[g] = "Unregister p.mu.Lock"
        /\ pmu.w = "none" /\ pmu.readers = {}
        /\ providers' = [n \in DOMAIN providers \ {"zai"} |-> providers[n]]
        /\ order' = RemoveName(order, "zai")
        /\ pmu' = Unlock(Lock(pmu, g))
        /\ rmu' = Unlock(rmu)
        /\ goroutines' = [goroutines EXCEPT ![g] = "idle"]
  /\ UNCHANGED <<nops, regSeq, dropped, regCall>>
  /\ UNCHANGED <<bridgeVars, tsVars, reqVars, provVars, chanVars, fnVars>>

\* Registry.GetByModel, GetDefault and List: r.mu.RLock(), the read, and
\* r.mu.RUnlock(); GetByModel calls SupportsModel, which read-locks p.mu,
\* on the providers in the order.
RegistryReadSteps(g) ==
  /\ \/ /\ goroutines[g] = "idle"
        /\ \E call \in {"GetByModel r.mu.RLock", "GetDefault r.mu.RLock",
                        "List r.mu.RLock"} :
             goroutines' = [goroutines EXCEPT ![g] = call]
        /\ rmu' = RLock(rmu, g)
        /\ UNCHANGED pmu
     \/ /\ goroutines[g] \in {"GetDefault r.mu.RLock", "List r.mu.RLock"}
        /\ g \in rmu.readers
        /\ rmu' = [rmu EXCEPT !.readers = @ \ {g}]
        /\ goroutines' = [goroutines EXCEPT ![g] = "idle"]
        /\ UNCHANGED pmu
     \/ /\ goroutines[g] = "GetByModel r.mu.RLock"
        /\ g \in rmu.readers
        /\ IF order = <<>>
           THEN /\ rmu' = [rmu EXCEPT !.readers = @ \ {g}]
                /\ goroutines' = [goroutines EXCEPT ![g] = "idle"]
                /\ UNCHANGED pmu
           ELSE /\ pmu' = RLock(pmu, g)
                /\ goroutines' = [goroutines EXCEPT ![g] = "GetByModel p.mu.RLock"]
                /\ UNCHANGED rmu
     \/ /\ goroutines[g] = "GetByModel p.mu.RLock"
        /\ g \in pmu.readers
        /\ pmu' = [pmu EXCEPT !.readers = @ \ {g}]
        /\ rmu' = [rmu EXCEPT !.readers = @ \ {g}]
        /\ goroutines' = [goroutines EXCEPT ![g] = "idle"]
  /\ UNCHANGED <<bridgeVars, tsVars, regVars, reqVars, provVars, chanVars, fnVars>>

\* Registry.HealthCheck: r.mu.RLock(), then HealthCheck of every stored
\* provider, then r.mu.RUnlock().  BaseProvider.HealthCheck locks p.mu,
\* returns at once with the provider unhealthy when it has no client or
\* cannot build the request, and otherwise holds p.mu until client.Do has
\* returned and the metrics are updated.
RegistryHealthCheckSteps(g) ==
  /\ \/ /\ goroutines[g] = "idle"
        /\ goroutines' = [goroutines EXCEPT ![g] = "HealthCheck r.mu.RLock"]
        /\ rmu' = RLock(rmu, g)
        /\ UNCHANGED <<pmu, metrics>>
     \/ /\ goroutines[g] = "HealthCheck r.mu.RLock"
        /\ g \in rmu.readers
        /\ IF DOMAIN providers = {}
           THEN /\ rmu' = [rmu EXCEPT !.readers = @ \ {g}]
                /\ goroutines' = [goroutines EXCEPT ![g] = "idle"]
                /\ UNCHANGED pmu
           ELSE /\ pmu' = [pmu EXCEPT !.pending = @ \cup {g}]
                /\ goroutines' = [goroutines EXCEPT ![g] = "HealthCheck p.mu.Lock"]
                /\ UNCHANGED rmu
        /\ UNCHANGED metrics
     \/ /\ goroutines[g] = "HealthCheck p.mu.Lock"
        /\ pmu.w = "none" /\ pmu.readers = {}
        /\ \E requestOk \in BOOLEAN :
             IF client /\ requestOk
             THEN /\ pmu' = Lock(pmu, g)
                  /\ goroutines' = [goroutines EXCEPT ![g] = "HealthCheck client.Do"]
                  /\ UNCHANGED <<rmu, metrics>>
             ELSE /\ metrics' = [metrics EXCEPT !.HealthStatus = "unhealthy"]
                  /\ pmu' = Unlock(Lock(pmu, g))
                  /\ rmu' = [rmu EXCEPT !.readers = @ \ {g}]
                  /\ goroutines' = [goroutines EXCEPT ![g] = "idle"]
     \/ /\ goroutines[g] = "HealthCheck client.Do"
        /\ \E ok \in BOOLEAN, latency \in Latencies :
             IF ok
             THEN metrics' = [metrics EXCEPT !.ConsecutiveFail = 0,
                                             !.HealthStatus = "healthy",
                                             !.AverageLatency = latency]
             ELSE /\ metrics.ConsecutiveFail < MaxConsecutiveFail
                  /\ metrics' = [metrics EXCEPT !.HealthStatus = "unhealthy",
                                                !.ConsecutiveFail = @ + 1]
        /\ pmu' = Unlock(pmu)
        /\ rmu' = [rmu EXCEPT !.readers = @ \ {g}]
        /\ goroutines' = [goroutines EXCEPT ![g] = "idle"]
  /\ UNCHANGED <<client, hcPc, waiting>>
  /\ UNCHANGED <<bridgeVars, tsVars, regVars, reqVars, chanVars, fnVars>>

\* BaseProvider.RecordRequest(success, latency): p.mu.Lock(); RequestsTotal
\* is incremented; then the other counter, the latency, the error rate and
\* the health state are set, which leaves what RecordRequest makes of the
\* metrics found at Lock(); p.mu.Unlock().
RecordRequestSteps(g) ==
  /\ \/ /\ goroutines[g] = "idle"
        /\ metrics.RequestsTotal
             + Cardinality({h \in Goroutines :
                             goroutines[h] = "RecordRequest p.mu.Lock"})
             < MaxRecords
        /\ goroutines' = [goroutines EXCEPT ![g] = "RecordRequest p.mu.Lock"]
        /\ pmu' = [pmu EXCEPT !.pending = @ \cup {g}]
        /\ UNCHANGED metrics
     \/ /\ goroutines[g] = "RecordRequest p.mu.Lock"
        /\ pmu.w = "none" /\ pmu.readers = {}
        /\ pmu' = Lock(pmu, g)
        /\ metrics' = [metrics EXCEPT !.RequestsTotal = @ + 1]
        /\ goroutines' = [goroutines EXCEPT ![g] = "RecordRequest counted"]
     \/ /\ goroutines[g] = "RecordRequest counted"
        /\ \E success \in BOOLEAN, latency \in Latencies :
             metrics' = RecordRequest(
                          [metrics EXCEPT !.RequestsTotal = @ - 1],
                          success, latency)
        /\ pmu' = Unlock(pmu)
        /\ goroutines' = [goroutines EXCEPT ![g] = "idle"]
  /\ UNCHANGED <<client, hcPc, waiting, rmu>>
  /\ UNCHANGED <<bridgeVars, tsVars, regVars, reqVars, chanVars, fnVars>>

GetMetricsWithoutLock(g) ==
  /\ \/ /\ goroutines[g] = "idle"
        /\ goroutines' = [goroutines EXCEPT ![g] = "GetMetrics p.mu.RLock"]
        /\ UNCHANGED pmu
     \/ /\ goroutines[g] = "GetMetrics p.mu.RLock"
        /\ goroutines' = [goroutines EXCEPT ![g] = "idle"]
        /\ UNCHANGED pmu
  /\ UNCHANGED rmu
  /\ UNCHANGED <<bridgeVars, tsVars, regVars, reqVars, provVars, chanVars, fnVars>>

\* BaseProvider.GetMetrics: p.mu.RLock(), a copy of p.metrics is returned,
\* p.mu.RUnlock().
GetMetricsSteps(g) ==
  /\ \/ /\ goroutines[g] = "idle"
        /\ goroutines' = [goroutines EXCEPT ![g] = "GetMetrics p.mu.RLock"]
        /\ pmu' = RLock(pmu, g)
     \/ /\ goroutines[g] = "GetMetrics p.mu.RLock"
        /\ g \in pmu.readers
        /\ pmu' = [pmu EXCEPT !.readers = @ \ {g}]
        /\ goroutines' = [goroutines EXCEPT ![g] = "idle"]
  /\ UNCHANGED rmu
  /\ UNCHANGED <<bridgeVars, tsVars, regVars, reqVars, provVars, chanVars, fnVars>>

\* The state of every part but the translation functions' arguments.
OtherInit ==
  BridgeInit /\ TSInit /\ RegInit /\ ReqInit /\ ProvInit /\ ChanInit /\ GoInit

Init == OtherInit /\ FnInit

Next == ReadFails \/ SkipLine \/ ReadDone \/ ReadChunk \/ Cancel

Spec == Init /\ [][Next]_vars

NextTS == TransformChunk \/ Reset

SpecTS == Init /\ [][NextTS]_vars

NextTranslator == TransformStreamChunk

SpecTranslator == Init /\ [][NextTranslator]_vars

NextRegistry == Register \/ Unregister

SpecRegistry == Init /\ [][NextRegistry]_vars

NextRouter == Register \/ Unregister \/ ExecuteForModel

SpecRouter == Init /\ [][NextRouter]_vars

NextProvider == Call \/ Resume \/ HealthCheckBegin \/ HealthCheckEnd

SpecProvider == Init /\ [][NextProvider]_vars

NextStream == Scan \/ Send \/ Finish \/ Receive

SpecStream == Init /\ [][NextStream]_vars

\* The goroutine runs whenever it is not blocked: a Scan that can return, a
\* send the channel has room for and the return of the function all happen.
\* Nothing makes the consumer receive.
SpecStreamFair ==
  SpecStream /\ WF_vars(Scan) /\ WF_vars(Send) /\ WF_vars(Finish)

\* What a goroutine may do next.
RunGoroutine(g) ==
  \/ RegisterSteps(g)
  \/ UnregisterSteps(g)
  \/ RegistryReadSteps(g)
  \/ RegistryHealthCheckSteps(g)
  \/ RecordRequestSteps(g)
  \/ GetMetricsSteps(g)

NextGoroutines == \E g \in Goroutines : RunGoroutine(g)

\* A goroutine inside a call runs whenever it is not blocked, the health
\* probe returns, and a goroutine blocked in Lock() gets the mutex after
\* finitely many others (sync.Mutex hands a starving waiter the lock).
\* Nothing makes an idle goroutine call.
SpecGoroutines ==
  /\ Init
  /\ [][NextGoroutines]_vars
  /\ \A g \in Goroutines : SF_vars(goroutines[g] # "idle" /\ RunGoroutine(g))

\* The arguments a translation function may be called with.
FunctionInputs == RequestInputs \cup ResponseInputs \cup IdInputs \cup MatchInputs

InitFunctions ==
  OtherInit /\ tin \in FunctionInputs /\ tcall = "none" /\ tout = Thrown(<<>>)

NextFunctions ==
  \/ CallTransformRequest
  \/ CallZaiTransformRequest
  \/ CallProxyTransformRequest
  \/ CallTransformResponse
  \/ CallZaiTransformResponse
  \/ CallProxyTransformResponse
  \/ CallGenerateResponseId
  \/ CallGenerateMessageId
  \/ CallGenerateCallId
  \/ CallSupportsModel

SpecFunctions == InitFunctions /\ [][NextFunctions]_vars

(***************************************************************************)
(* Properties of ProxyHandler.transformStream.                             *)
(***************************************************************************)
Types(evs) == [k \in 1..Len(evs) |-> evs[k].type]

Positions(evs, t) == {k \in 1..Len(evs) : evs[k].type = t}

Count(evs, t) == Cardinality(Positions(evs, t))

\* The events that end a stream for the client: response.completed, or a
\* terminal failure (response.failed, error).
TerminalTypes == {"response.completed", "response.failed", "error"}

Terminals(evs) == {k \in 1..Len(evs) : evs[k].type \in TerminalTypes}

ClosingTypes ==
  {"response.output_text.done", "response.content_part.done",
   "response.output_item.done", "response.completed", "response.done"}

\* C1: the k-th event written on a stream carries sequence number k - 1: the
\* numbers start at 0 and go up by one, the final response.done included.
C1_SequenceNumbersContiguous ==
  \A k \in 1..Len(out) : out[k].seq = k - 1

\* A whole lifecycle was written: created, in_progress, the two added
\* events, two deltas, the three done events, completed and done.
C1_Witness ==
  /\ endCause = "done"
  /\ Len(out) = 11
  /\ out[Len(out)].type = "response.done"
  /\ out[Len(out)].seq = 10

\* C2: a stream that has started and whose backend input has ended (by
\* [DONE], by end of input or by a read error, with or without a
\* finish_reason seen) has written exactly one terminal event.
C2_ExactlyOneTerminal ==
  (pc = "returned" /\ sentCreated) => Cardinality(Terminals(out)) = 1

\* The closing events owed for the parts that were opened.
C4_Expected ==
  (IF Count(out, "response.content_part.added") > 0
   THEN <<"response.output_text.done", "response.content_part.done">> ELSE <<>>)
  \o (IF Count(out, "response.output_item.added") > 0
      THEN <<"response.output_item.done">> ELSE <<>>)
  \o <<"response.completed", "response.done">>

C5_CreatedFirst ==
  out # <<>> =>
    /\ Len(out) >= 2
    /\ out[1].type = "response.created"
    /\ out[2].type = "response.in_progress"
    /\ Count(out, "response.created") = 1
    /\ Count(out, "response.in_progress") = 1

\* The output_text.delta events written so far.
C6_Deltas ==
  SelectSeq(out, LAMBDA e : e.type = "response.output_text.delta")

\* C6: output_item.added and content_part.added are written at most once
\* each, exactly when some non-empty fragment was handled, as the two events
\* right before the first output_text.delta; and the deltas carry, one for
\* one and in order, the non-empty fragments handled (never the accumulated
\* text).
C6_AddedOnceThenFragments ==
  LET deltas == Positions(out, "response.output_text.delta")
  IN  /\ Count(out, "response.output_item.added") <= 1
      /\ Count(out, "response.content_part.added") <= 1
      /\ (received # <<>>) <=> (Count(out, "response.output_item.added") = 1)
      /\ (received # <<>>) <=> (Count(out, "response.content_part.added") = 1)
      /\ deltas # {} =>
           LET first == CHOOSE k \in deltas : \A j \in deltas : k <= j
           IN  /\ first > 2
               /\ out[first - 2].type = "response.output_item.added"
               /\ out[first - 1].type = "response.content_part.added"
      /\ [k \in 1..Len(C6_Deltas) |-> C6_Deltas[k].text] = received

C6_Witness ==
  /\ Len(received) >= 2
  /\ received[1] # received[2]
  /\ Len(C6_Deltas) >= 2
  /\ C6_Deltas[2].text = received[2]

\* C7: when the stream has been closed, exactly one response.completed and
\* one response.done were written and the text in response.completed is the
\* concatenation of the fragments handled, in order.
C7_CompletedTextIsConcatenation ==
  endCause = "done" =>
    /\ Count(out, "response.completed") = 1
    /\ Count(out, "response.done") = 1
    /\ \A k \in Positions(out, "response.completed") :
         out[k].text = Concat(received)

\* C9: after the request context is cancelled nothing more is written.
C9_NoEventAfterCancel ==
  cancelled => Len(out) = outAtCancel

\* C10: a stream that has started and whose read fails, without the request
\* having been cancelled, ends with a terminal failure event.
C10_ReadErrorClosesStream ==
  (pc = "returned" /\ endCause = "error" /\ ~cancelled /\ out # <<>>) =>
    out[Len(out)].type \in TerminalTypes

\* ReadString returned a line in this step.
C11_Read == <<buffered, nread>>' # <<buffered, nread>>

\* What a step that follows the reading of a malformed frame must do.
C11_Step ==
  /\ (C11_Read /\ line'.kind = "bad") =>
       /\ pc' = "reading"
       /\ UNCHANGED <<out, sequenceNumber, sentCreated,
                      sentOutputItemAdded, sentContentPartAdded, fullText>>
  /\ (C11_Read /\ line.kind = "bad" /\ line'.kind = "chunk") =>
       /\ pc' = "reading"
       /\ sentCreated'
       /\ fullText' = fullText \o Concat(line'.contents)
       /\ Len(out') = Len(out) + (IF sentCreated THEN 0 ELSE 2)
             + (IF sentOutputItemAdded \/ Concat(line'.contents) = <<>>
                THEN 0 ELSE 2)
             + Len(SelectSeq(line'.contents, LAMBDA c : c # <<>>))
  /\ (C11_Read /\ line.kind = "bad" /\ line'.kind = "done") =>
       /\ pc' = "returned"
       /\ fullText' = fullText
       /\ Len(out') >= Len(out) + 2
       /\ out'[Len(out') - 1].type = "response.completed"
       /\ out'[Len(out')].type = "response.done"
       /\ (sentContentPartAdded /\ fullText # <<>>) =>
            out'[Len(out) + 1] =
              Event("response.output_text.done", sequenceNumber, fullText)

C3_NoEventAfterTerminal ==
  \A k \in 1..Len(tsOut) :
    tsOut[k].type = "response.completed" => k = Len(tsOut)

\* C8: in the response.completed just returned, every tool-call index whose
\* id and name were received has a function_call block whose id is the
\* backend id with call_ rewritten to fc_ and whose arguments are that
\* index's fragments concatenated in arrival order; and there is no other
\* function_call block.
C8_ToolCallArguments ==
  (tsOut # <<>> /\ tsOut[Len(tsOut)].type = "response.completed") =>
    LET content == tsOut[Len(tsOut)].content
        calls   == {k \in 1..Len(content) : content[k].type = "function_call"}
    IN  /\ \A i \in tsCalls : \E k \in calls :
             /\ content[k].id = <<"fc_", i>>
             /\ content[k].arguments = tsArgs[i]
        /\ \A k \in calls : \E i \in tsCalls :
             /\ content[k].id = <<"fc_", i>>
             /\ content[k].arguments = tsArgs[i]

\* C12: after reset() (as after construction) there is no stream state,
\* whatever the previous stream had accumulated; the first event returned
\* for the next chunk is response.created, and the StreamState that chunk
\* starts has empty text, no tool calls and isComplete false.
C12_ResetStartsNewStream ==
  /\ tsOut = <<>> => state = NoState
  /\ tsOut # <<>> =>
       /\ tsOut[1].type = "response.created"
       /\ state.live
  /\ Len(tsOut) = 1 =>
       /\ state.currentText = <<>>
       /\ state.currentToolCalls = <<>>
       /\ ~state.isComplete

\* The previous stream had text and a tool call when reset() was called, and
\* the chunk after the reset got response.created and a fresh state.
C12_Witness ==
  /\ tsPrev.live
  /\ tsPrev.currentText # <<>>
  /\ tsPrev.currentToolCalls # <<>>
  /\ Len(tsOut) = 1
  /\ tsOut[1].type = "response.created"
  /\ chunk.content # <<>>
  /\ state = initializeState(chunk)

(***************************************************************************)
(* Properties of Registry.                                                 *)
(***************************************************************************)
\* The registered names whose configuration is enabled.
EnabledNames == {n \in DOMAIN providers : providers[n].enabled}

\* The place of a registered name in the registration order.
RegPos(n) == CHOOSE k \in 1..Len(regSeq) : regSeq[k] = n

\* a ranks before b by (priority, registration order).
RanksBefore(a, b) ==
  \/ providers[a].priority < providers[b].priority
  \/ /\ providers[a].priority = providers[b].priority
     /\ RegPos(a) < RegPos(b)

\* C13: List returns the enabled registered providers, each once, in
\* ascending priority number, providers of equal priority in the order they
\* were registered.
C13_OrderSortedByPriority ==
  /\ {List[k] : k \in 1..Len(List)} = EnabledNames
  /\ \A i, j \in 1..Len(List) : i < j => RanksBefore(List[i], List[j])

\* The enabled registered providers that support a model.
Supporters(model) ==
  {n \in EnabledNames : SupportsModel(providers[n], model)}

\* C14: for every model, GetByModel returns an error exactly when no enabled
\* registered provider supports it, and otherwise the supporting enabled
\* provider that ranks before every other one by (priority, registration
\* order).
C14_GetByModelReturnsBestRanked ==
  \A model \in ModelNames :
    IF Supporters(model) = {} THEN GetByModel(model) = NoProvider
    ELSE /\ GetByModel(model) \in Supporters(model)
         /\ \A n \in Supporters(model) \ {GetByModel(model)} :
              RanksBefore(GetByModel(model), n)

\* C16: every provider handed to a successful Register stays registered
\* (Get finds it) until it is unregistered, enabled or not; List holds the
\* enabled ones only, each once, so neither GetByModel nor GetDefault ever
\* returns a disabled provider; and a provider that was in the order and is
\* registered again as disabled is out of the order and still registered.
C16_DisabledStoredNotOrdered ==
  /\ \A k \in 1..Len(regSeq) : Get(regSeq[k])
  /\ \A n \in DOMAIN providers :
       Cardinality({k \in 1..Len(List) : List[k] = n}) =
         (IF providers[n].enabled THEN 1 ELSE 0)
  /\ \A k \in 1..Len(List) : List[k] \in EnabledNames
  /\ \A model \in ModelNames : GetByModel(model) \in EnabledNames \cup {NoProvider}
  /\ GetDefault \in EnabledNames \cup {NoProvider}
  /\ \A n \in dropped :
       /\ Get(n)
       /\ \A k \in 1..Len(List) : List[k] # n

\* A provider registered as enabled, then again as disabled, while another
\* enabled provider stays in the order.
C16_Witness ==
  /\ dropped # {}
  /\ List # <<>>
  /\ \E n \in dropped : ~providers[n].enabled /\ SupportsModel(providers[n], <<"glm", "-", "5">>)

(***************************************************************************)
(* Properties of the request path.                                         *)
(***************************************************************************)
\* FallbackConfig.RetryCount of the default configuration.
RetryCount == 2

\* C15: when the call on the selected provider returned an error
\* that is retryable and fallback-eligible, fallback is enabled and another
\* provider in the order supports the model, a second call was made,
\* on the next such provider; an error that is not retryable is followed by
\* no other call; and at most RetryCount retries are made.
C15_FailoverRetriesNextAdapter ==
  attempts # <<>> =>
    LET first == IF attempts[1].call = "Execute"
                 THEN Execute(attempts[1].reply)
                 ELSE ExecuteStream(attempts[1].reply)
    IN  /\ (first.retryable /\ first.fallback /\ fallbackEnabled
              /\ candidates # <<>>) =>
             /\ Len(attempts) >= 2
             /\ attempts[2].name = candidates[1]
        /\ ~first.retryable => Len(attempts) = 1
        /\ Len(attempts) <= 1 + RetryCount

\* C18: for a backend answer with a status, Execute and ExecuteStream
\* return an error when the status is outside 200..299 and none when it is
\* inside (the body being readable JSON), and a ProviderError they return
\* has Retryable and Fallback both equal to (status >= 500).
C18_ErrorIffNot2xx ==
  (attempts # <<>> /\ attempts[1].reply # TransportFailure) =>
    LET reply == attempts[1].reply
        is2xx == reply.status >= 200 /\ reply.status <= 299
    IN  /\ ~is2xx => result.kind \in {"error", "ProviderError"}
        /\ (~is2xx /\ reply.body = "json") => result.kind = "ProviderError"
        /\ (is2xx /\ reply.body = "json") => result.kind = "response"
        /\ result.kind = "ProviderError" =>
             /\ result.httpStatus = reply.status
             /\ result.retryable <=> reply.status >= 500
             /\ result.fallback <=> reply.status >= 500

(***************************************************************************)
(* Properties of BaseProvider.                                             *)
(***************************************************************************)
\* C17: no call of GetByModel, SupportsModel, GetMetrics or RecordRequest
\* waits for a health probe: while HealthCheck is inside client.Do no such
\* call is blocked on the provider's lock.
C17_HealthCheckNeverBlocks ==
  hcPc = "probing" => waiting \notin LockingCalls \ {"Initialize"}

\* What a step that records a request must leave in the metrics.
C19_Step ==
  metrics'.RequestsTotal # metrics.RequestsTotal =>
    LET failed == metrics'.RequestsFailed
        total  == metrics'.RequestsTotal
    IN  /\ total = metrics.RequestsTotal + 1
        /\ failed <= total
        /\ metrics'.ErrorRate = Rate(failed, total)
        /\ metrics'.HealthStatus =
             IF 2 * failed > total THEN "unhealthy"
             ELSE IF 10 * failed > total THEN "degraded"
             ELSE "healthy"
        /\ 2 * failed = total => metrics'.HealthStatus = "degraded"
        /\ 10 * failed = total => metrics'.HealthStatus = "healthy"

\* C19: after every RecordRequest the error rate is failed/total and the
\* health state follows from it alone, whatever it was before: unhealthy
\* above 0.5, degraded above 0.1 and up to 0.5, healthy up to 0.1; exactly
\* 0.5 is degraded and exactly 0.1 is healthy.
C19_HealthFromErrorRate == [][C19_Step]_vars

\* Ten requests recorded, one of them failed: the error rate is exactly 0.1
\* and the provider is healthy.
C19_Witness ==
  /\ metrics.RequestsTotal = 10
  /\ metrics.RequestsFailed = 1
  /\ metrics.ErrorRate = Rate(1, 10)
  /\ metrics.HealthStatus = "healthy"
  /\ metrics.ConsecutiveFail = 0
  /\ hcPc = "idle"

(***************************************************************************)
(* Properties of ExecuteStream's channel.                                  *)
(***************************************************************************)
\* C20: eventChan never buffers more than 100 values; the values received
\* and the values buffered are, in order, exactly the values sent (none is
\* dropped, repeated or overtaken); and the value of a send in progress is
\* not in the channel, so a send on a full channel waits for a receive.
C20_QueueBoundedNoDrop ==
  /\ Len(eventChan) <= ChanCap
  /\ LET all == taken \o eventChan
     IN  /\ Len(all) = nsent
         /\ \A k \in 1..Len(all) : all[k].id = k
  /\ pcP = "send" =>
       /\ pending.id = nsent + 1
       /\ \A k \in 1..Len(eventChan) : eventChan[k] # pending

\* The channel is full, the goroutine is blocked in a send, and the
\* consumer has already received values.
C20_Witness ==
  /\ Len(eventChan) = ChanCap
  /\ pcP = "send"
  /\ pending.type = "chunk"
  /\ taken # <<>>
  /\ ~ENABLED Send

\* C29: once the body has ended (Scan returns false without an error), or
\* has failed or been cut off by the cancelled request context (Scan returns
\* false with an error), the goroutine eventually returns, closing the body
\* and the channel, even when the consumer has stopped receiving.
C29_ProducerTerminates ==
  (scanned \in {"eof", "error"}) ~> (pcP = "closed")

\* The values sent so far and the one being sent, in order.
C30_Sent ==
  taken \o eventChan \o (IF pcP = "send" THEN <<pending>> ELSE <<>>)

RequestCalls ==
  {"transformRequest", "ZaiProvider.TransformRequest", "ProxyHandler.transformRequest"}

\* C21: the model of the backend request is the value the caller's mapping
\* table has for the requested model when the model is a key of that table,
\* and the requested model itself when it is not a key of that table.
C21_ModelMappedByCallerTable ==
  (tcall \in RequestCalls /\ tout.ok) =>
    LET model == tin.request.model
        table == tin.options.modelMapping
    IN  tout.value.model = IF model \in DOMAIN table THEN table[model] ELSE model

\* The messages after the system message made from the instructions.
C24_Rest(messages) ==
  IF messages # <<>> /\ messages[1].role = "system" /\ messages[1].item = 0
  THEN Tail(messages) ELSE messages

\* C24: in a transformed request a system message carrying the instructions
\* comes first if and only if the request has instructions; after it a
\* string input gives exactly one user message with that text, and an item
\* array gives at most one message per item, in the order of the items, a
\* message, input_text or input_image item of transformRequest always
\* giving its message.
C24_MessagesInOrder ==
  (tcall \in RequestCalls /\ tout.ok) =>
    LET request == tin.request
        messages == tout.value.messages
        rest == C24_Rest(messages)
    IN  /\ (request.instructions # <<>>) <=>
             /\ messages # <<>>
             /\ messages[1] = ChatMessage("system", request.instructions, <<>>, 0)
        /\ \A k \in 2..Len(messages) : messages[k].item # 0 \/ messages[k].role # "system"
        /\ request.input.kind = "text" =>
             rest = <<ChatMessage("user", request.input.text, <<>>, 0)>>
        /\ request.input.kind = "absent" => rest = <<>>
        /\ request.input.kind = "items" =>
             /\ \A k \in 1..Len(rest) : rest[k].item \in 1..Len(request.input.items)
             /\ \A j, k \in 1..Len(rest) : j < k => rest[j].item < rest[k].item
             /\ \A k \in 1..Len(rest) :
                  LET item == request.input.items[rest[k].item]
                  IN  /\ item.type = "message" => rest[k].role = item.role
                      /\ item.type \in {"input_text", "input_image"} =>
                           rest[k].role = "user"
                      /\ item.type = "input_text" => rest[k].content = item.text
             /\ tcall = "transformRequest" =>
                  \A i \in 1..Len(request.input.items) :
                    (request.input.items[i].type \in {"message", "input_text", "input_image"})
                    <=> (\E k \in 1..Len(rest) : rest[k].item = i)

\* transformRequest has turned instructions and two items that both give a
\* message into three messages; and the string "Hello" without instructions
\* into one.
C24_Witness ==
  /\ tcall = "transformRequest"
  /\ tout.ok
  /\ tin.request.instructions # <<>>
  /\ tin.request.input.kind = "items"
  /\ Len(tin.request.input.items) = 2
  /\ tin.request.input.items[1].type = "message"
  /\ tin.request.input.items[2].type = "input_text"
  /\ Len(tout.value.messages) = 3

\* The backend form of a canonical call id: fc_X becomes call_X.
C25_BackendId(id) ==
  IF id # <<>> /\ Head(id) = "fc_" THEN <<"call_">> \o Tail(id) ELSE id

\* C25: every function_call_output item of the input gives exactly one
\* message, of role tool and with the item's call id in the backend form as
\* its tool_call_id, and a function_call item gives no message.
C25_FunctionCallOutputBecomesToolMessage ==
  (tcall \in RequestCalls /\ tout.ok /\ tin.request.input.kind = "items") =>
    LET items == tin.request.input.items
        messages == tout.value.messages
        Made(i) == {k \in 1..Len(messages) : messages[k].item = i}
    IN  \A i \in 1..Len(items) :
          /\ items[i].type = "function_call_output" =>
               /\ Cardinality(Made(i)) = 1
               /\ \A k \in Made(i) :
                    /\ messages[k].role = "tool"
                    /\ messages[k].tool_call_id = C25_BackendId(items[i].call_id)
          /\ items[i].type = "function_call" => Made(i) = {}

\* C26: a request transformer fails with a validation error exactly when
\* the model or the input of the request is absent.
C26_FailsIffModelOrInputAbsent ==
  tcall \in RequestCalls =>
    (~tout.ok <=> (tin.request.model = "" \/ tin.request.input.kind = "absent"))

(***************************************************************************)
(* Properties of the response transformers.                                *)
(***************************************************************************)
ResponseCalls ==
  {"transformResponse", "ZaiProvider.TransformResponse", "ProxyHandler.transformResponse"}

\* The status the finish reason of a response's first choice stands for.
C22_Status(reason) ==
  CASE reason = "stop" -> "completed"
    [] reason = "length" -> "incomplete"
    [] reason = "tool_calls" -> "completed"
    [] reason = "content_filter" -> "failed"
    [] OTHER -> "completed"

\* C22: the status of a transformed non-streaming response is completed for
\* the finish reason stop, incomplete for length, completed for tool_calls,
\* failed for content_filter, and completed for any other or absent reason.
C22_FinishReasonToStatus ==
  (tcall \in ResponseCalls /\ tout.ok /\ tin.response.choices # <<>>) =>
    tout.value.status = C22_Status(tin.response.choices[1].finish)

\* C27: a response transformer handed a backend response without choices
\* returns an error and no canonical response, and returns a canonical
\* response only for a response with at least one choice.
C27_ZeroChoicesIsError ==
  tcall \in ResponseCalls =>
    /\ tin.response.choices = <<>> => ~tout.ok
    /\ tout.ok => tin.response.choices # <<>>

(***************************************************************************)
(* Properties of SupportsModel and of the id functions.                    *)
(***************************************************************************)
\* a is a prefix of b.
IsPrefix(a, b) == Len(a) <= Len(b) /\ SubSeq(b, 1, Len(a)) = a

\* C23: SupportsModel(model) is true exactly when some configured pattern
\* equals the model, or ends in a wildcard and what precedes the wildcard
\* is a prefix of the model, or glob-matches the model; so with the single
\* pattern glm-* it is true for glm-5 and glm-4.7 and false for gpt-4, and
\* with no patterns it is false for every model.
C23_SupportsModelExactlyWhenMatched ==
  tcall = "SupportsModel" =>
    /\ tout.value <=>
         \E k \in 1..Len(tin.models) :
           LET pattern == tin.models[k]
           IN  \/ pattern = tin.model
               \/ /\ pattern[Len(pattern)] = "*"
                  /\ IsPrefix(SubSeq(pattern, 1, Len(pattern) - 1), tin.model)
               \/ filepathMatch(pattern, tin.model)
    /\ tin.models = << <<"glm", "-", "*">> >> =>
         /\ tin.model \in {<<"glm", "-", "5">>, <<"glm", "-", "4", ".7">>} => tout.value
         /\ tin.model = <<"gpt", "-", "4">> => ~tout.value
    /\ tin.models = <<>> => ~tout.value

\* id starts with the prefix twice.
Doubled(id, prefix) == Len(id) >= 2 /\ id[1] = prefix /\ id[2] = prefix

\* C28: an id function called on its own result returns that result again,
\* whatever the id it started from; generateCallId replaces a leading call_
\* by fc_; and no result starts with a doubled prefix unless the id did.
C28_IdNamespacingIdempotent ==
  /\ tcall = "generateResponseId" =>
       /\ \A r \in RandomIds : tout.value = generateResponseId(tin.id, r)
       /\ Doubled(tout.value, "resp_") => Doubled(tin.id, "resp_")
  /\ tcall = "generateMessageId" =>
       /\ \A r \in RandomIds : tout.value = generateMessageId(tin.id, r)
       /\ Doubled(tout.value, "msg_") => Doubled(tin.id, "msg_")
  /\ tcall = "generateCallId" =>
       /\ tout.value = generateCallId(tin.id)
       /\ Head(tin.id) = "call_" => tout.value = <<"fc_">> \o Tail(tin.id)
       /\ Doubled(tout.value, "fc_") => Doubled(tin.id, "fc_")

(***************************************************************************)
(* Properties of the metrics a stream records.                             *)
(***************************************************************************)
\* C31: a stream records no outcome before its goroutine returns and
\* exactly one when it has returned, and that outcome is a failure when the
\* stream ended with a read error and a success when it ended cleanly (by
\* the done marker or the end of the body).
C31_OneOutcomePerStream ==
  /\ pcP # "closed" => metrics.RequestsTotal = 0
  /\ pcP = "closed" =>
       /\ metrics.RequestsTotal = 1
       /\ metrics.RequestsFailed = (IF scanned = "error" THEN 1 ELSE 0)
       /\ metrics.RequestsSuccess = (IF scanned = "error" THEN 0 ELSE 1)

(***************************************************************************)
(* Properties of concurrent calls on the registry and the provider.        *)
(***************************************************************************)
\* What one step of the goroutines does to the three request counters.
C32_Step ==
  LET dTotal   == metrics'.RequestsTotal - metrics.RequestsTotal
      dSuccess == metrics'.RequestsSuccess - metrics.RequestsSuccess
      dFailed  == metrics'.RequestsFailed - metrics.RequestsFailed
      returns(at) == \E g \in Goroutines :
                       goroutines[g] = at /\ goroutines'[g] = "idle"
      locks == \E g \in Goroutines :
                 /\ goroutines[g] = "RecordRequest p.mu.Lock"
                 /\ goroutines'[g] = "RecordRequest counted"
  IN  /\ dTotal >= 0 /\ dSuccess >= 0 /\ dFailed >= 0
      /\ returns("GetMetrics p.mu.RLock") =>
            metrics.RequestsTotal =
              metrics.RequestsSuccess + metrics.RequestsFailed
      /\ locks => dTotal = 1 /\ dSuccess = 0 /\ dFailed = 0
      /\ returns("RecordRequest counted") =>
            /\ dTotal = 0
            /\ dSuccess + dFailed = 1
            /\ metrics'.RequestsTotal =
                 metrics'.RequestsSuccess + metrics'.RequestsFailed
      /\ ~locks /\ ~returns("RecordRequest counted") =>
            dTotal = 0 /\ dSuccess = 0 /\ dFailed = 0

\* C32: the copy of the metrics every GetMetrics returns has RequestsTotal
\* = RequestsSuccess + RequestsFailed; between taking p.mu and returning,
\* each RecordRequest adds exactly 1 to RequestsTotal and exactly 1 to one
\* of the other two counters; no other step of a concurrent RecordRequest,
\* health check, GetMetrics or registry call changes a counter, and no
\* counter ever decreases.
C32_CountersConsistent == [][C32_Step]_vars

\* A second request is being recorded, its total counted and its outcome
\* not yet, while a GetMetrics call is blocked on p.mu.
C32_Witness ==
  \E g, h \in Goroutines :
    /\ goroutines[g] = "RecordRequest counted"
    /\ goroutines[h] = "GetMetrics p.mu.RLock"
    /\ h \in pmu.queued
    /\ metrics.RequestsTotal = 2
    /\ metrics.RequestsSuccess + metrics.RequestsFailed = 1

\* C39: a goroutine that takes or waits for r.mu holds no p.mu, so the two
\* locks are only ever nested with r.mu outside; and every call a
\* goroutine has made eventually returns.
C39_EveryCallReturns ==
  /\ [](\A g \in Goroutines :
          g \in rmu.pending \cup rmu.queued =>
            pmu.w # g /\ g \notin pmu.readers \cup pmu.pending \cup pmu.queued)
  /\ \A g \in Goroutines : (goroutines[g] # "idle") ~> (goroutines[g] = "idle")

\* A health check holds r.mu for reading and p.mu for writing while its
\* probe is in flight, and GetByModel, also holding r.mu for reading, is
\* blocked on p.mu inside SupportsModel.
C39_Witness ==
  \E g, h \in Goroutines :
    /\ goroutines[g] = "HealthCheck client.Do"
    /\ pmu.w = g
    /\ goroutines[h] = "GetByModel p.mu.RLock"
    /\ h \in pmu.queued
    /\ rmu.readers = {g, h}

(***************************************************************************)
(* Properties relating the response transformers to the stream finalizer.  *)
(***************************************************************************)
\* C33: the status a response transformer gives a response is the status
\* the stream finalizer gives a stream that ended with the same finish
\* reason, whichever transformer it is and whether the reason is one of the
\* named ones, another one, or absent.
C33_OneStatusPerFinishReason ==
  (tcall \in ResponseCalls /\ tout.ok /\ tin.response.choices # <<>>) =>
    LET reason == tin.response.choices[1].finish
        final  == finalizeStream(initializeState(<<>>), reason)
    IN  tout.value.status = final.events[1].status

(***************************************************************************)
(* Properties of the text StreamTransformer accumulates.                   *)
(***************************************************************************)
\* What a transformChunk call must leave in the state: the text accumulated
\* before it (none when the chunk starts a stream) followed by the content
\* fragment of its chunk.
C34_Step ==
  (ncalls' = ncalls + 1 /\ state'.live) =>
    LET before == IF state.live THEN state.currentText ELSE <<>>
    IN  state'.currentText = before \o chunk'.content

\* C34: no text fragment is lost: every chunk received on a stream, the
\* first one included, appends its content fragment to the accumulated
\* text, so that at finalization the text is the concatenation of the
\* fragments of all chunks of the stream.
C34_NoFragmentLost == [][C34_Step]_vars

(***************************************************************************)
(* Properties of two streams sent through one Translator.                  *)
(***************************************************************************)
RECURSIVE C35_Alone(_, _)
\* The events a StreamTransformer in state st returns for these chunks.
C35_Alone(st, chunks) ==
  IF chunks = <<>> THEN <<>>
  ELSE LET r == transformChunk(st, Head(chunks))
       IN  r.events \o C35_Alone(r.state, Tail(chunks))

\* C35: each of the two streams is returned exactly the events a
\* StreamTransformer of its own would return for its chunks: its own
\* response.created first, deltas for its own fragments, and a
\* response.completed built from its own text and tool calls only.
C35_StreamsDoNotShareState ==
  \A s \in DOMAIN streams :
    streams[s].events = C35_Alone(NoState, streams[s].chunks)


(***************************************************************************)
(* C36: in every reachable state of the Go streaming bridge the            *)
(* output-item-added flag equals the content-part-added flag, both are     *)
(* true exactly when the accumulated text is non-empty, and either being   *)
(* true implies that the created flag is true.                             *)
(***************************************************************************)
C36_FlagsFollowText ==
  /\ sentOutputItemAdded = sentContentPartAdded
  /\ sentOutputItemAdded <=> (fullText # <<>>)
  /\ (sentOutputItemAdded \/ sentContentPartAdded) => sentCreated

\* Two content fragments have been accumulated and all three flags are set.
C36_Witness ==
  /\ sentOutputItemAdded /\ sentContentPartAdded /\ sentCreated
  /\ Len(fullText) >= 2
  /\ Len(SelectSeq(out, LAMBDA e : e.type = "response.output_text.delta")) >= 2


(***************************************************************************)
(* C37: after any sequence of Register and Unregister calls, successful or *)
(* failed, every name in the order is a key of the provider map, no name   *)
(* appears twice in the order, and right after a successful                *)
(* Unregister(name) the name is in neither the map nor the order.          *)
(***************************************************************************)
C37_RegistryConsistent ==
  /\ \A k \in 1..Len(order) : order[k] \in DOMAIN providers
  /\ \A j, k \in 1..Len(order) : j # k => order[j] # order[k]
  /\ (regCall.op = "Unregister" /\ ~regCall.err) =>
       /\ regCall.name \notin DOMAIN providers
       /\ \A k \in 1..Len(order) : order[k] # regCall.name

\* The third call has just unregistered a provider while another one stays
\* registered and listed.
C37_Witness ==
  /\ regCall.op = "Unregister" /\ ~regCall.err
  /\ nops = MaxOps
  /\ Len(order) = 1
  /\ regCall.name \notin DOMAIN providers

(***************************************************************************)
(* C38: a registry call that fails leaves the registry unchanged.  A       *)
(* Register or Unregister call that returns an error leaves the provider   *)
(* map and the order exactly as they were, and an Unregister of a name     *)
(* that is not registered returns an error.                                *)
(***************************************************************************)
C38_Step ==
  nops' # nops =>
    /\ regCall'.err => (providers' = providers /\ order' = order)
    /\ (regCall'.op = "Unregister" /\ regCall'.name \notin DOMAIN providers)
         => regCall'.err

C38_FailureChangesNothing == [][C38_Step]_vars

\* Unregister of a registered, listed provider has just failed (its Shutdown
\* returned an error) and the provider is still registered and listed.
C38_Witness ==
  /\ regCall.op = "Unregister" /\ regCall.err
  /\ regCall.name \in DOMAIN providers
  /\ \E k \in 1..Len(order) : order[k] = regCall.name


(***************************************************************************)
(* C40: HealthCheck changes only health fields.  When the probe returns,   *)
(* either it succeeded and the health state is healthy and ConsecutiveFail *)
(* is 0, or it failed and the health state is unhealthy and                *)
(* ConsecutiveFail has grown by exactly 1; in both cases RequestsTotal,    *)
(* RequestsSuccess, RequestsFailed and ErrorRate are what they were.  A    *)
(* step that records no request, a HealthCheck that returns before         *)
(* probing included, leaves these four fields unchanged as well.           *)
(***************************************************************************)
C40_CountersUnchanged ==
  /\ metrics'.RequestsTotal = metrics.RequestsTotal
  /\ metrics'.RequestsSuccess = metrics.RequestsSuccess
  /\ metrics'.RequestsFailed = metrics.RequestsFailed
  /\ metrics'.ErrorRate = metrics.ErrorRate

C40_Step ==
  /\ (hcPc = "probing" /\ hcPc' = "idle") =>
       /\ C40_CountersUnchanged
       /\ \/ /\ metrics'.HealthStatus = "healthy"
             /\ metrics'.ConsecutiveFail = 0
          \/ /\ metrics'.HealthStatus = "unhealthy"
             /\ metrics'.ConsecutiveFail = metrics.ConsecutiveFail + 1
  /\ metrics'.RequestsTotal = metrics.RequestsTotal => C40_CountersUnchanged

====
